---- MODULE Spec2Model ----
(***************************************************************************)
(* Model of the negative-space gap analysis pipeline:                      *)
(*   VoidMappingEngine.map_void (discovery, deduplication, sort, graph     *)
(*   metrics, cache), VoidMap graph operations, VoidNavigationEngine       *)
(*   (gap_hopping), VoidClusterer, the VoidAgent pipeline and the          *)
(*   command-line entry point (__main__.py).                               *)
(*                                                                         *)
(* Numbers: Python floats are modelled as exact rationals [n, d]; the      *)
(* criticality / certainty weights are kept multiplied by 10.              *)
(* Strings: a text is a sequence of tokens; a token is one character       *)
(* ("k", "K", " ", "'") or one whole word of an f-string.                  *)
(***************************************************************************)
EXTENDS Integers, Sequences, FiniteSets, TLC

\* ------------------------------------------------------------- bounds
\* Largest number of keys of one input state mapping.
MaxKeys == 2
\* Largest number of extension discovery strategies replaced by a plug-in.
MaxPlugged == 2
\* Largest number of gaps of a hand-built void-map given to the navigator.
MaxGaps == 3
\* Largest number of dependency entries over all gaps of such a void-map.
MaxDeps == 2

\* ------------------------------------------------------------- generic helpers
Range(s) == {s[i] : i \in DOMAIN s}

Min(a, b) == IF a <= b THEN a ELSE b

\* All orders in which the elements of a finite set can be iterated.
Orderings(S) ==
    {s \in [1..Cardinality(S) -> S] : \A i, j \in 1..Cardinality(S) : i # j => s[i] # s[j]}

RECURSIVE Gcd(_, _)
Gcd(a, b) == IF b = 0 THEN a ELSE Gcd(b, a % b)

\* Exact rationals, always in lowest terms with a positive denominator.
Rat(n, d) == LET g == Gcd(IF n < 0 THEN -n ELSE n, d) IN [n |-> n \div g, d |-> d \div g]
RatZero == [n |-> 0, d |-> 1]
RatOne == [n |-> 1, d |-> 1]
RatAdd(a, b) == Rat(a.n * b.d + b.n * a.d, a.d * b.d)
RatSub(a, b) == Rat(a.n * b.d - b.n * a.d, a.d * b.d)
RatMul(a, b) == Rat(a.n * b.n, a.d * b.d)
RatLeq(a, b) == a.n * b.d <= b.n * a.d
RatLt(a, b) == a.n * b.d < b.n * a.d
RatMin(a, b) == IF RatLeq(a, b) THEN a ELSE b
InUnitInterval(r) == RatLeq(RatZero, r) /\ RatLeq(r, RatOne)

\* list.sort(key=..., reverse=True) on a sequence of [k |-> key, v |-> item]:
\* the items in descending order of key, items with equal keys in their
\* relative order: the item at position i goes behind the items with a greater
\* key and the earlier items with the same key.
SortedDesc(keyed) ==
    LET Sorted(items) ==
            LET n == Len(items)
                Position(i) ==
                    1 + Cardinality({j \in 1..n : \/ items[j].k > items[i].k
                                                  \/ items[j].k = items[i].k /\ j < i})
            IN [p \in 1..n |-> items[CHOOSE i \in 1..n : Position(i) = p].v]
    IN CHOOSE sorted \in {Sorted(items) : items \in {keyed}} : TRUE

\* ------------------------------------------------------------- text
\* str.lower() on one token.
LowerToken(c) ==
    CASE c = "K" -> "k"
      [] c = "X" -> "x"
      [] c = "A" -> "a"
      [] c = "B" -> "b"
      [] c = "Attribute" -> "attribute"
      [] c = "Type" -> "type"
      [] OTHER -> c

\* str.lower()
Lower(s) == [i \in DOMAIN s |-> LowerToken(s[i])]

IsSpace(c) == c = " "

RECURSIVE LStrip(_)
LStrip(s) == IF s # <<>> /\ IsSpace(Head(s)) THEN LStrip(Tail(s)) ELSE s

RECURSIVE RStrip(_)
RStrip(s) ==
    IF s # <<>> /\ IsSpace(s[Len(s)]) THEN RStrip(SubSeq(s, 1, Len(s) - 1)) ELSE s

\* str.strip()
Strip(s) == RStrip(LStrip(s))

\* set(str.split()): the maximal runs of tokens that hold no whitespace.
Words(s) ==
    {SubSeq(s, i, j) : <<i, j>> \in
        {p \in (DOMAIN s) \X (DOMAIN s) :
            /\ p[1] <= p[2]
            /\ \A x \in p[1]..p[2] : ~IsSpace(s[x])
            /\ (p[1] = 1 \/ IsSpace(s[p[1] - 1]))
            /\ (p[2] = Len(s) \/ IsSpace(s[p[2] + 1]))}}

\* ------------------------------------------------------------- enums (core.py)
VoidTypes ==
    <<"DEPENDENCY_GAP", "INFORMATION_GAP", "CONSTRAINT_GAP", "CAPABILITY_GAP",
      "CONCEPTUAL_GAP", "CAUSAL_GAP", "TEMPORAL_GAP", "ETHICAL_GAP">>

GapCertainties == <<"DEFINITE", "HYPOTHESIZED", "SPECULATIVE", "EMERGENT">>

\* GapCriticality, in declaration order: auto() numbers the members 1, 2, ...
GapCriticalities == <<"BLOCKING", "HIGH", "MEDIUM", "LOW", "UNKNOWN">>

\* Enum member .value
CriticalityValue(c) == CHOOSE i \in DOMAIN GapCriticalities : GapCriticalities[i] = c

\* ------------------------------------------------------------- Gap
NoShape == [computed |-> FALSE, dimensionality |-> 0, connectivity |-> 0]

\* Gap(...) with the dataclass defaults for the fields not given.
\* size and clarity are in tenths; evidence holds each record's "type".
Gap(id, description, void_type, domains, evidence, manifestations, criticality, certainty) ==
    [id |-> id, description |-> description, void_type |-> void_type,
     domains |-> domains, evidence |-> evidence, manifestations |-> manifestations,
     criticality |-> criticality, certainty |-> certainty,
     size |-> 5, clarity |-> 5,
     dependencies |-> <<>>, fillable |-> TRUE,
     fill_cost |-> 0, fill_time |-> 0,
     negative_shape |-> NoShape, boundary_conditions |-> <<>>]

\* _estimate_dimensionality counting repeated entries.
_estimate_dimensionality_with_repeats(gap) ==
    Min(5, Len(gap.domains) + Len(gap.manifestations))

_estimate_dimensionality(gap) ==
    Min(5, Cardinality(Range(gap.domains)) + Cardinality(Range(gap.manifestations)))

calculate_negative_shape(gap) ==
    [gap EXCEPT !.negative_shape =
        [computed |-> TRUE,
         dimensionality |-> _estimate_dimensionality(gap),
         connectivity |-> Len(gap.dependencies)]]

\* ------------------------------------------------------------- VoidMap (core.py)
\* Input state mappings: functions from keys to values; a value carries the
\* name of its Python type and, for the numeric types, its number.
IsNumber(v) == v.type \in {"int", "float", "bool"}

EmptyNetwork == [nodes |-> <<>>, edges |-> {}]

\* VoidMap(id, point_a, point_b, timestamp) with the dataclass defaults.
VoidMap(id, a, b) ==
    [id |-> id, point_a |-> a, point_b |-> b, gaps |-> <<>>,
     gap_network |-> EmptyNetwork,
     void_density |-> RatZero, connectivity |-> RatZero, navigability |-> RatZero]

\* Criticality weights, in tenths.
CriticalityWeight(c) ==
    CASE c = "BLOCKING" -> 10
      [] c = "HIGH" -> 7
      [] c = "MEDIUM" -> 4
      [] c = "LOW" -> 2
      [] c = "UNKNOWN" -> 5
      [] OTHER -> 5

\* Certainty weights, in tenths.
CertaintyWeight(c) ==
    CASE c = "DEFINITE" -> 10
      [] c = "HYPOTHESIZED" -> 7
      [] c = "SPECULATIVE" -> 3
      [] c = "EMERGENT" -> 5
      [] OTHER -> 5

\* In hundredths.
_gap_weight(gap) == CriticalityWeight(gap.criticality) * CertaintyWeight(gap.certainty)

\* len(self._estimate_possible_gaps()): the three loops append one entry each.
_estimate_possible_gaps(a, b) ==
    LET a_keys == DOMAIN a
        b_keys == DOMAIN b
        missing == b_keys \ a_keys
        mismatch == {k \in a_keys \cap b_keys : a[k].type # b[k].type}
        disparity == {k \in a_keys \cap b_keys :
                        IsNumber(a[k]) /\ IsNumber(b[k]) /\ a[k].val # b[k].val}
    IN Cardinality(missing) + Cardinality(mismatch) + Cardinality(disparity)

RECURSIVE TotalWeight(_)
TotalWeight(gaps) ==
    IF gaps = <<>> THEN 0 ELSE _gap_weight(Head(gaps)) + TotalWeight(Tail(gaps))

\* calculate_void_density with the total weight reduced by the estimate
\* instead of divided by it.
calculate_void_density_subtract(vm) ==
    IF vm.gaps = <<>> THEN RatZero
    ELSE LET total_weight == TotalWeight(vm.gaps)
             estimated_gaps == _estimate_possible_gaps(vm.point_a, vm.point_b)
         IN IF estimated_gaps > 0
            THEN RatMin(RatOne, Rat(total_weight - 100 * estimated_gaps, 100))
            ELSE Rat(total_weight, 100 * 10)

calculate_void_density(vm) ==
    IF vm.gaps = <<>> THEN RatZero
    ELSE LET total_weight == TotalWeight(vm.gaps)
             estimated_gaps == _estimate_possible_gaps(vm.point_a, vm.point_b)
         IN IF estimated_gaps > 0
            THEN RatMin(RatOne, Rat(total_weight, 100 * estimated_gaps))
            ELSE Rat(total_weight, 100 * 10)

\* _are_gaps_related without the test for overlapping domains.
_are_gaps_related_by_type(gap1, gap2) ==
    \/ gap1.void_type = gap2.void_type
    \/ /\ gap1.void_type = "DEPENDENCY_GAP"
       /\ gap2.void_type \in {"CAPABILITY_GAP", "INFORMATION_GAP"}
    \/ /\ gap1.void_type = "CAUSAL_GAP"
       /\ gap2.void_type = "INFORMATION_GAP"

_are_gaps_related(gap1, gap2) ==
    \/ gap1.void_type = gap2.void_type
    \/ /\ gap1.void_type = "DEPENDENCY_GAP"
       /\ gap2.void_type \in {"CAPABILITY_GAP", "INFORMATION_GAP"}
    \/ /\ gap1.void_type = "CAUSAL_GAP"
       /\ gap2.void_type = "INFORMATION_GAP"
    \/ Range(gap1.domains) \cap Range(gap2.domains) # {}

\* The nx.Graph built by build_gap_network: nodes in insertion order, edges as
\* unordered pairs of node ids.
GapNetwork(gaps) ==
    [nodes |-> [i \in DOMAIN gaps |-> gaps[i].id],
     edges |-> {{gaps[p[1]].id, gaps[p[2]].id} :
                  p \in {q \in (DOMAIN gaps) \X (DOMAIN gaps) :
                           q[1] < q[2] /\ _are_gaps_related(gaps[q[1]], gaps[q[2]])}}]

\* nx.density of an undirected graph: 0 when there is no edge or at most one
\* node, else 2m / (n (n - 1)).
Density(G) ==
    LET n == Cardinality(Range(G.nodes))
        m == Cardinality(G.edges)
    IN IF m = 0 \/ n <= 1 THEN RatZero ELSE Rat(2 * m, n * (n - 1))

Neighbours(G, v) == {u \in Range(G.nodes) : u # v /\ {u, v} \in G.edges}

\* Breadth-first levels from a source: <<{s}, nodes at distance 1, ...>>.
RECURSIVE BfsLevels(_, _, _)
BfsLevels(G, frontier, seen) ==
    IF frontier = {} THEN <<>>
    ELSE LET next == {u \in Range(G.nodes) \ seen : \E v \in frontier : {u, v} \in G.edges}
         IN <<frontier>> \o BfsLevels(G, next, seen \cup next)

\* Distance from s to t, or -1 when t is not reachable.
Distance(G, s, t) ==
    LET levels == BfsLevels(G, {s}, {s})
    IN IF \E i \in DOMAIN levels : t \in levels[i]
       THEN (CHOOSE i \in DOMAIN levels : t \in levels[i]) - 1
       ELSE -1

\* Number of shortest paths from s to t (Brandes' sigma).
RECURSIVE Sigma(_, _, _)
Sigma(G, s, t) ==
    IF s = t THEN 1
    ELSE LET d == Distance(G, s, t)
             preds == {u \in Neighbours(G, t) : Distance(G, s, u) = d - 1}
             counts == [u \in preds |-> Sigma(G, s, u)]
             RECURSIVE Sum(_)
             Sum(S) == IF S = {} THEN 0
                       ELSE LET u == CHOOSE x \in S : TRUE IN counts[u] + Sum(S \ {u})
         IN IF d < 0 THEN 0 ELSE Sum(preds)

\* Share of the shortest s-t paths that pass through v.
PairDependency(G, s, t, v) ==
    IF /\ Distance(G, s, t) > 0
       /\ Distance(G, s, v) > 0
       /\ Distance(G, v, t) > 0
       /\ Distance(G, s, v) + Distance(G, v, t) = Distance(G, s, t)
    THEN Rat(Sigma(G, s, v) * Sigma(G, v, t), Sigma(G, s, t))
    ELSE RatZero

RECURSIVE RatSum(_, _)
RatSum(f, S) ==
    IF S = {} THEN RatZero
    ELSE LET x == CHOOSE y \in S : TRUE IN RatAdd(f[x], RatSum(f, S \ {x}))

\* nx.betweenness_centrality(G) (normalized, endpoints excluded) of node v:
\* the accumulation runs over ordered pairs (s, t); the result is scaled by
\* 1 / ((n - 1)(n - 2)) when n > 2 and left as it is otherwise.
BetweennessCentrality(G, v) ==
    LET N == Range(G.nodes)
        n == Cardinality(N)
        pairs == {p \in (N \ {v}) \X (N \ {v}) : p[1] # p[2]}
        raw == RatSum([p \in pairs |-> PairDependency(G, p[1], p[2], v)], pairs)
    IN IF n <= 2 THEN raw ELSE RatMul(raw, Rat(1, (n - 1) * (n - 2)))

RECURSIVE RatMax(_, _)
RatMax(f, S) ==
    LET x == CHOOSE y \in S : TRUE
    IN IF S \ {x} = {} THEN f[x]
       ELSE LET m == RatMax(f, S \ {x}) IN IF RatLeq(m, f[x]) THEN f[x] ELSE m

\* build_gap_network: the graph is rebuilt; the two metrics are assigned only
\* when the graph has a node.
build_gap_network(vm) ==
    LET G == GapNetwork(vm.gaps)
        N == Range(G.nodes)
        centralities == [v \in N |-> BetweennessCentrality(G, v)]
    IN IF Len(G.nodes) > 0
       THEN [vm EXCEPT !.gap_network = G,
                       !.connectivity = Density(G),
                       !.navigability = RatSub(RatOne, RatMax(centralities, N))]
       ELSE [vm EXCEPT !.gap_network = G]

\* ------------------------------------------------------------- inputs
\* Keys of the state mappings: "k" and "K" differ only in case.
Keys == {"k", "K", "m"}

PyInt(n) == [type |-> "int", val |-> n]
PyStr(n) == [type |-> "str", val |-> n]
Values == {PyInt(0), PyInt(1), PyStr(0)}

StateMappings ==
    UNION {[S -> Values] : S \in {T \in SUBSET Keys : Cardinality(T) <= MaxKeys}}

\* A parsed JSON value that is not a mapping (a list, a number, a string,
\* null): it has no keys().
NonMapping == [index \in {"[0]"} |-> PyInt(0)]

IsMapping(point) == DOMAIN point \subseteq Keys

\* context: None, a context whose "domain_mappings" is a mapping from domain
\* names to keyword lists, and one whose "domain_mappings" is not a mapping.
NoContext == [given |-> FALSE, well_formed |-> TRUE, domain_mappings |-> <<>>]
DomainContext ==
    [given |-> TRUE, well_formed |-> TRUE,
     domain_mappings |-> <<[domain |-> "financial", keywords |-> <<(<<"k">>)>>]>>]
MalformedContext == [given |-> TRUE, well_formed |-> FALSE, domain_mappings |-> <<>>]
Contexts == {NoContext, DomainContext, MalformedContext}

\* ------------------------------------------------------------- VoidMappingEngine
\* keyword in text
IsSubstring(keyword, text) ==
    \E i \in 1..(Len(text) - Len(keyword) + 1) : SubSeq(text, i, i + Len(keyword) - 1) = keyword

\* context["domain_mappings"].items() raises when the value is not a mapping.
InferDomainsRaises(context) == context.given /\ ~context.well_formed

_infer_domains(key, context) ==
    LET Matches(entry) ==
            \E i \in DOMAIN entry.keywords : IsSubstring(entry.keywords[i], Lower(<<key>>))
        matching == SelectSeq(context.domain_mappings, Matches)
    IN <<"general">> \o [i \in DOMAIN matching |-> matching[i].domain]

MissingAttributeGap(key, context) ==
    Gap(<<"missing_attr_", key>>,
        <<"Attribute", " ", "'", key, "'", " ", "exists", " ", "in", " ", "B", " ",
          "but", " ", "not", " ", "in", " ", "A">>,
        "DEPENDENCY_GAP",
        _infer_domains(key, context),
        <<"direct_comparison">>,
        <<(<<"Missing ", key, " attribute">>)>>,
        "UNKNOWN", "DEFINITE")

TypeMismatchGap(key, a_type, b_type, context) ==
    Gap(<<"type_mismatch_", key>>,
        <<"Type", " ", "mismatch", " ", "for", " ", "'", key, "'", ":", " ",
          a_type, " ", "in", " ", "A", " ", "vs", " ", b_type, " ", "in", " ", "B">>,
        "DEPENDENCY_GAP",
        _infer_domains(key, context),
        <<"type_comparison">>,
        <<(<<"Type conversion needed for ", key>>)>>,
        "MEDIUM", "DEFINITE")

\* MissingKeys taking the difference the other way round.
MissingKeysOfCurrent(a, b) == (DOMAIN a) \ (DOMAIN b)

MissingKeys(a, b) == (DOMAIN b) \ (DOMAIN a)

\* TypeMismatchKeys with the comparison of the two types the wrong way round.
TypeMismatchKeysInverted(a, b) ==
    {k \in (DOMAIN a) \cap (DOMAIN b) : a[k].type = b[k].type}

TypeMismatchKeys(a, b) == {k \in (DOMAIN a) \cap (DOMAIN b) : a[k].type # b[k].type}

\* ContrastiveRaises for a _contrastive_analysis that skips a context it
\* cannot read.
ContrastiveRaisesOnPointsOnly(a, b, context) == ~IsMapping(a) \/ ~IsMapping(b)

\* _contrastive_analysis raises when a point has no keys() (lines 107-108),
\* and when it has to infer the domains of some key and the context is
\* malformed.
ContrastiveRaises(a, b, context) ==
    \/ ~IsMapping(a)
    \/ ~IsMapping(b)
    \/ /\ InferDomainsRaises(context)
       /\ MissingKeys(a, b) \cup TypeMismatchKeys(a, b) # {}

\* The lists _contrastive_analysis can return: the two loops run over Python
\* sets, whose iteration order is not fixed.
_contrastive_analysis(a, b, context) ==
    {[i \in DOMAIN m |-> MissingAttributeGap(m[i], context)] \o
     [i \in DOMAIN t |-> TypeMismatchGap(t[i], a[t[i]].type, b[t[i]].type, context)] :
        m \in Orderings(MissingKeys(a, b)), t \in Orderings(TypeMismatchKeys(a, b))}

\* The registry self.discovery_methods: an insertion-ordered dict.  "source"
\* is the method defined in mapping.py; a plug-in is a callable assigned to
\* the entry, which either raises or returns the list `emits`.
SourceMethod(name) == [name |-> name, source |-> TRUE, raises |-> FALSE, emits |-> <<>>]

DiscoveryMethodNames ==
    <<"contrastive_analysis", "dependency_walk", "constraint_propagation",
      "counterfactual_exploration", "boundary_probing">>

SourceMethods == [i \in DOMAIN DiscoveryMethodNames |-> SourceMethod(DiscoveryMethodNames[i])]

\* What awaiting one discovery method can do: the set of outcomes
\* [raised, gaps].
CallMethod(method, a, b, context) ==
    IF ~method.source
    THEN {[raised |-> method.raises, gaps |-> IF method.raises THEN <<>> ELSE method.emits]}
    ELSE IF method.name = "contrastive_analysis"
    THEN IF ContrastiveRaises(a, b, context)
         THEN {[raised |-> TRUE, gaps |-> <<>>]}
         ELSE {[raised |-> FALSE, gaps |-> g] : g \in _contrastive_analysis(a, b, context)}
    ELSE {[raised |-> FALSE, gaps |-> <<>>]}

\* Normalized without lower().
NormalizedCaseSensitive(description) == Strip(description)

\* gap.description.lower().strip()
Normalized(description) == Strip(Lower(description))

RECURSIVE DedupLoop(_, _, _)
DedupLoop(gaps, seen_descriptions, unique_gaps) ==
    IF gaps = <<>> THEN unique_gaps
    ELSE LET gap == Head(gaps)
             normalized == Normalized(gap.description)
         IN IF normalized \notin seen_descriptions
            THEN DedupLoop(Tail(gaps), seen_descriptions \cup {normalized},
                           Append(unique_gaps, gap))
            ELSE DedupLoop(Tail(gaps), seen_descriptions, unique_gaps)

_deduplicate_gaps(gaps) == DedupLoop(gaps, {}, <<>>)

\* The sort key of map_void: g.criticality.value.
CriticalitySortKey(gap) == CriticalityValue(gap.criticality)

\* assessed_gaps.sort(key=..., reverse=True)
SortAssessedGaps(gaps) ==
    SortedDesc([i \in DOMAIN gaps |-> [k |-> CriticalitySortKey(gaps[i]), v |-> gaps[i]]])

\* hashlib.sha256(str(point_a) + str(point_b)): taken as injective.
MapId(a, b) == <<"void_map_", a, b>>

\* map_void after the discovery loop: lines 73-89.
AssembleVoidMap(vm, gaps) ==
    LET unique_gaps == _deduplicate_gaps(gaps)
        assessed_gaps == [i \in DOMAIN unique_gaps |-> calculate_negative_shape(unique_gaps[i])]
        with_gaps == [vm EXCEPT !.gaps = SortAssessedGaps(assessed_gaps)]
        with_network == build_gap_network(with_gaps)
    IN [with_network EXCEPT !.void_density = calculate_void_density(with_network)]

\* ------------------------------------------------------------- VoidNavigationEngine
NavigationStrategyNames ==
    {"gap_hopping", "boundary_skirting", "void_bridging", "constraint_circumvention"}

\* ResolveStrategy without the substitution of the default.
ResolveStrategyAsGiven(strategy) == strategy

\* navigate_void, lines 36-38: the name whose function is looked up.
ResolveStrategy(strategy) ==
    IF strategy \notin NavigationStrategyNames THEN "gap_hopping" ELSE strategy

GapIds(gaps) == {gaps[i].id : i \in DOMAIN gaps}

\* dep_graph: an edge dep -> gap.id for every listed dependency that is the id
\* of a gap of the void-map.
DepEdges(gaps) ==
    LET ids == GapIds(gaps)
    IN UNION {{<<gaps[i].dependencies[j], gaps[i].id>> :
                 j \in {x \in DOMAIN gaps[i].dependencies : gaps[i].dependencies[x] \in ids}} :
              i \in DOMAIN gaps}

Predecessors(gaps, id) == {e[1] : e \in {x \in DepEdges(gaps) : x[2] = id}}

\* dep_graph.successors(id), in the order the edges were inserted: by the
\* position of the dependent gap in the gap list.  Yields the node's "gap".
Successors(gaps, id) ==
    LET edges == DepEdges(gaps)
    IN SelectSeq(gaps, LAMBDA g : <<id, g.id>> \in edges)

\* start_gaps.sort(key=lambda g: void_map._gap_weight(g), reverse=True)
SortByWeight(gaps) ==
    SortedDesc([i \in DOMAIN gaps |-> [k |-> _gap_weight(gaps[i]), v |-> gaps[i]]])

\* InitialStartGaps keeping only the heaviest start gap.
InitialStartGapsHeaviestOnly(gaps) ==
    LET all == SortByWeight(SelectSeq(gaps, LAMBDA g : g.fillable /\ Predecessors(gaps, g.id) = {}))
    IN IF all = <<>> THEN <<>> ELSE <<Head(all)>>

\* Lines 71-78: the fillable gaps with in-degree 0, by weight.
InitialStartGaps(gaps) ==
    SortByWeight(SelectSeq(gaps, LAMBDA g : g.fillable /\ Predecessors(gaps, g.id) = {}))

PathStep(gap) ==
    [gap_id |-> gap.id, description |-> gap.description,
     action |-> <<"Fill ", gap.void_type, " gap">>,
     estimated_cost |-> gap.fill_cost, estimated_time |-> gap.fill_time]

\* Popped when the head is read and left in the list.
PoppedNothing(start_gaps) == start_gaps

\* start_gaps.pop(0): what is left in the list.
Popped(start_gaps) == Tail(start_gaps)

\* Promoted without the test that every predecessor is filled.
PromotedUnchecked(gaps, current, filled) == Successors(gaps, current.id)

\* Lines 100-106: the successors all of whose predecessors are filled.
Promoted(gaps, current, filled) ==
    SelectSeq(Successors(gaps, current.id),
              LAMBDA g : Predecessors(gaps, g.id) \subseteq filled)

\* The iteration without the test of filled_gaps, promoting every successor.
HopIterationEager(gaps, st) ==
    LET current_gap == Head(st.start_gaps)
        rest == Popped(st.start_gaps)
        filled == st.filled_gaps \cup {current_gap.id}
    IN [start_gaps |-> SortByWeight(rest \o Successors(gaps, current_gap.id)),
        path |-> Append(st.path, PathStep(current_gap)),
        filled_gaps |-> filled]

\* One iteration of the while loop, lines 85-109, on [start_gaps, path,
\* filled_gaps].
HopIteration(gaps, st) ==
    LET current_gap == Head(st.start_gaps)
        rest == Popped(st.start_gaps)
    IN IF current_gap.id \in st.filled_gaps
       THEN [st EXCEPT !.start_gaps = rest]
       ELSE LET filled == st.filled_gaps \cup {current_gap.id}
            IN [start_gaps |-> SortByWeight(rest \o Promoted(gaps, current_gap, filled)),
                path |-> Append(st.path, PathStep(current_gap)),
                filled_gaps |-> filled]

RECURSIVE SumField(_, _)
SumField(path, field) ==
    IF path = <<>> THEN 0 ELSE Head(path)[field] + SumField(Tail(path), field)

\* The plan _gap_hopping returns; `totals` tells whether the two total_* keys
\* are present.
EmptyHoppingPlan ==
    [strategy |-> "gap_hopping", path |-> <<>>, summary |-> <<"No gaps to navigate">>,
     totals |-> FALSE, total_estimated_cost |-> 0, total_estimated_time |-> 0]

HoppingPlan(path) ==
    [strategy |-> "gap_hopping", path |-> path,
     summary |-> <<"Navigate by filling ", ToString(Len(path)), " gaps in sequence">>,
     totals |-> TRUE,
     total_estimated_cost |-> SumField(path, "estimated_cost"),
     total_estimated_time |-> SumField(path, "estimated_time")]

NoPlan ==
    [strategy |-> "", path |-> <<>>, summary |-> <<>>,
     totals |-> FALSE, total_estimated_cost |-> 0, total_estimated_time |-> 0]

\* _gap_hopping as one call: the while loop run until start_gaps is empty.
RECURSIVE RunHopping(_, _)
RunHopping(gaps, st) ==
    IF st.start_gaps = <<>> THEN st ELSE RunHopping(gaps, HopIteration(gaps, st))

_gap_hopping(vm) ==
    IF vm.gaps = <<>> THEN EmptyHoppingPlan
    ELSE HoppingPlan(RunHopping(vm.gaps, [start_gaps |-> InitialStartGaps(vm.gaps),
                                          path |-> <<>>, filled_gaps |-> {}]).path)

\* ------------------------------------------------------------- VoidClusterer
\* VoidClusterer(n_clusters=5), as VoidAgent builds it.
n_clusters == 5

ClusteringMethodNames == {"semantic", "structural", "strategic"}

\* cluster_gaps, lines 36-38.
ResolveMethod(method) ==
    IF method \notin ClusteringMethodNames THEN "semantic" ELSE method

Jaccard(S, T) ==
    IF S \cup T = {} THEN RatZero ELSE Rat(Cardinality(S \cap T), Cardinality(S \cup T))

\* _gap_similarity(gap1, gap2) > 0.6.  The float sum is above 0.6 exactly when
\* the exact sum is, except for 0.4 + 0.5 * 0.3 + (1/6) * 0.3, which rounds to
\* 0.6000000000000001.
SimilarityAboveThreshold(gap1, gap2) ==
    LET type_sim == IF gap1.void_type = gap2.void_type THEN Rat(1, 1) ELSE Rat(3, 10)
        domain_sim == Jaccard(Range(gap1.domains), Range(gap2.domains))
        words1 == Words(Lower(gap1.description))
        words2 == Words(Lower(gap2.description))
        word_sim == IF words1 # {} /\ words2 # {} THEN Jaccard(words1, words2) ELSE RatZero
        exact == RatAdd(RatMul(type_sim, Rat(4, 10)),
                        RatAdd(RatMul(domain_sim, Rat(3, 10)), RatMul(word_sim, Rat(3, 10))))
    IN \/ RatLt(Rat(6, 10), exact)
       \/ type_sim = Rat(1, 1) /\ domain_sim = Rat(1, 2) /\ word_sim = Rat(1, 6)

\* max(type_counts.items(), key=count)[0]: the first type, in order of first
\* occurrence, with the largest count.
DominantType(gaps) ==
    LET Count(t) == Cardinality({i \in DOMAIN gaps : gaps[i].void_type = t})
        first == CHOOSE i \in DOMAIN gaps :
                    /\ \A j \in DOMAIN gaps : Count(gaps[j].void_type) <= Count(gaps[i].void_type)
                    /\ \A j \in 1..(i - 1) : Count(gaps[j].void_type) < Count(gaps[i].void_type)
    IN IF gaps = <<>> THEN "INFORMATION_GAP" ELSE gaps[first].void_type

\* _create_cluster: id, members, density, dominant type; strategic_importance
\* has the dataclass default.  The centroid, boundary and core fields are not
\* modelled.
_create_cluster(gaps, cluster_type) ==
    [id |-> [kind |-> cluster_type, members |-> [i \in DOMAIN gaps |-> gaps[i].id]],
     gaps |-> gaps,
     density |-> Rat(Len(gaps), 10),
     cluster_type |-> DominantType(gaps),
     strategic_importance |-> RatZero]

RECURSIVE MaxCriticalityValue(_)
MaxCriticalityValue(gaps) ==
    IF Len(gaps) = 1 THEN CriticalityValue(Head(gaps).criticality)
    ELSE LET m == MaxCriticalityValue(Tail(gaps))
             v == CriticalityValue(Head(gaps).criticality)
         IN IF v >= m THEN v ELSE m

calculate_strategic_importance(cluster) ==
    IF cluster.gaps = <<>> THEN [cluster EXCEPT !.strategic_importance = RatZero]
    ELSE [cluster EXCEPT !.strategic_importance =
            RatMul(Rat(MaxCriticalityValue(cluster.gaps), 1), cluster.density)]

\* clusters.sort(key=..., reverse=True) for a rational-valued key: descending,
\* stable.
SortedDescRat(keyed) ==
    LET Sorted(items) ==
            LET n == Len(items)
                Position(i) ==
                    1 + Cardinality({j \in 1..n : \/ RatLt(items[i].k, items[j].k)
                                                  \/ items[j].k = items[i].k /\ j < i})
            IN [p \in 1..n |-> items[CHOOSE i \in 1..n : Position(i) = p].v]
    IN CHOOSE sorted \in {Sorted(items) : items \in {keyed}} : TRUE

\* Truncate that keeps the whole list.
TruncateNothing(seq, n) == seq

Truncate(seq, n) == SubSeq(seq, 1, Min(n, Len(seq)))

\* The greedy pass with a later gap compared with the newest member of the
\* cluster instead of its seed.
RECURSIVE SemanticLoopChained(_, _, _, _)
SemanticLoopChained(gaps, i, used_gaps, clusters) ==
    IF i > Len(gaps) THEN clusters
    ELSE IF gaps[i].id \in used_gaps THEN SemanticLoopChained(gaps, i + 1, used_gaps, clusters)
    ELSE LET RECURSIVE Absorb(_, _, _)
             Absorb(j, used, members) ==
                 IF j > Len(gaps) THEN [used |-> used, members |-> members]
                 ELSE IF /\ gaps[j].id \notin used
                         /\ SimilarityAboveThreshold(members[Len(members)], gaps[j])
                 THEN Absorb(j + 1, used \cup {gaps[j].id}, Append(members, gaps[j]))
                 ELSE Absorb(j + 1, used, members)
             grown == Absorb(i + 1, used_gaps \cup {gaps[i].id}, <<gaps[i]>>)
         IN SemanticLoopChained(gaps, i + 1, grown.used,
                                Append(clusters, _create_cluster(grown.members, "semantic")))

\* The greedy pass of _semantic_clustering, lines 69-89.
RECURSIVE SemanticLoop(_, _, _, _)
SemanticLoop(gaps, i, used_gaps, clusters) ==
    IF i > Len(gaps) THEN clusters
    ELSE IF gaps[i].id \in used_gaps THEN SemanticLoop(gaps, i + 1, used_gaps, clusters)
    ELSE LET RECURSIVE Absorb(_, _, _)
             Absorb(j, used, members) ==
                 IF j > Len(gaps) THEN [used |-> used, members |-> members]
                 ELSE IF gaps[j].id \notin used /\ SimilarityAboveThreshold(gaps[i], gaps[j])
                 THEN Absorb(j + 1, used \cup {gaps[j].id}, Append(members, gaps[j]))
                 ELSE Absorb(j + 1, used, members)
             grown == Absorb(i + 1, used_gaps \cup {gaps[i].id}, <<gaps[i]>>)
         IN SemanticLoop(gaps, i + 1, grown.used,
                         Append(clusters, _create_cluster(grown.members, "semantic")))

_semantic_clustering(gaps) ==
    LET clusters == SemanticLoop(gaps, 1, {}, <<>>)
        keyed == [i \in DOMAIN clusters |-> [k |-> Len(clusters[i].gaps), v |-> clusters[i]]]
    IN Truncate(SortedDesc(keyed), n_clusters)

\* BucketKey reading the void-type alone.
BucketKeyTypeOnly(gap) == <<gap.void_type>>

\* f"{gap.void_type.name}_{gap.criticality.name}"
BucketKey(gap) == <<gap.void_type, "_", gap.criticality>>

\* _strategic_clustering: one cluster per bucket, in order of the bucket's
\* first gap; the sort reads strategic_importance as _create_cluster left it.
_strategic_clustering(gaps) ==
    LET firsts == SelectSeq([i \in DOMAIN gaps |-> i],
                            LAMBDA i : \A j \in 1..(i - 1) : BucketKey(gaps[j]) # BucketKey(gaps[i]))
        Bucket(i) == SelectSeq(gaps, LAMBDA g : BucketKey(g) = BucketKey(gaps[i]))
        clusters == [x \in DOMAIN firsts |-> _create_cluster(Bucket(firsts[x]), "strategic")]
        keyed == [i \in DOMAIN clusters |-> [k |-> clusters[i].strategic_importance, v |-> clusters[i]]]
    IN Truncate(SortedDescRat(keyed), n_clusters)

\* cluster_gaps, lines 40-49, for the resolved method name.  "structural"
\* (community detection) is registered but its function is not modelled:
\* requests name the other two methods or an unregistered name.
ClusterWith(resolved, gaps) ==
    LET clusters == IF resolved = "strategic" THEN _strategic_clustering(gaps)
                    ELSE _semantic_clustering(gaps)
    IN [i \in DOMAIN clusters |-> calculate_strategic_importance(clusters[i])]

\* ------------------------------------------------------------- VoidAgent
\* The dict some_distribution: name -> count, over the names that occur.
Distribution(gaps, field) ==
    [name \in {gaps[i][field] : i \in DOMAIN gaps} |->
        Cardinality({i \in DOMAIN gaps : gaps[i][field] = name})]

CountOf(dist, name) == IF name \in DOMAIN dist THEN dist[name] ELSE 0

EmptyDistribution == [name \in {} |-> 0]

\* _analyze_void_patterns: `keys` are the keys of the returned dict.
_analyze_void_patterns(vm) ==
    IF vm.gaps = <<>>
    THEN [keys |-> {"patterns", "insights"},
          void_density |-> RatZero,
          gap_distribution |-> EmptyDistribution,
          criticality_distribution |-> EmptyDistribution,
          certainty_distribution |-> EmptyDistribution,
          fillability_rate |-> RatZero,
          insights |-> <<>>]
    ELSE LET gaps == vm.gaps
             gap_distribution == Distribution(gaps, "void_type")
             criticality_distribution == Distribution(gaps, "criticality")
             fillable_count == Cardinality({i \in DOMAIN gaps : gaps[i].fillable})
             fillability_rate == Rat(fillable_count, Len(gaps))
             blocking_count == CountOf(criticality_distribution, "BLOCKING")
             most_common == DominantType(gaps)
         IN [keys |-> {"void_density", "gap_distribution", "criticality_distribution",
                       "certainty_distribution", "fillability_rate", "insights"},
             void_density |-> vm.void_density,
             gap_distribution |-> gap_distribution,
             criticality_distribution |-> criticality_distribution,
             certainty_distribution |-> Distribution(gaps, "certainty"),
             fillability_rate |-> fillability_rate,
             insights |->
                <<(<<"most_common", most_common>>)>> \o
                (IF RatLt(Rat(7, 10), fillability_rate) THEN <<(<<"optimistic">>)>>
                 ELSE IF RatLt(fillability_rate, Rat(3, 10)) THEN <<(<<"pessimistic">>)>>
                 ELSE <<>>) \o
                (IF blocking_count > 0 THEN <<(<<"blocking_first">>)>> ELSE <<>>)]

_generate_recommendations(vm, pat) ==
    (IF RatLt(Rat(8, 10), vm.void_density) THEN <<"redefine_point_b">>
     ELSE IF RatLt(vm.void_density, Rat(2, 10)) THEN <<"proceed_cautiously">>
     ELSE <<>>) \o
    (IF CountOf(pat.gap_distribution, "CONSTRAINT_GAP") > CountOf(pat.gap_distribution, "DEPENDENCY_GAP")
     THEN <<"constraints_first">> ELSE <<>>) \o
    (IF RatLt(pat.fillability_rate, Rat(3, 10)) THEN <<"alternative_paths">> ELSE <<>>) \o
    (IF CountOf(pat.criticality_distribution, "BLOCKING") > 2
     THEN <<"blocking_first">> ELSE <<>>)

_generate_void_report(vm, plan, cl, pat) ==
    LET blocking_gaps == SelectSeq(vm.gaps, LAMBDA g : g.criticality = "BLOCKING")
        top == Truncate(blocking_gaps, 3)
    IN [summary |-> [void_map_id |-> vm.id, total_gaps |-> Len(vm.gaps),
                     void_density |-> vm.void_density,
                     navigability |-> vm.navigability,
                     connectivity |-> vm.connectivity],
        critical_findings |->
            [i \in DOMAIN top |->
                [gap_id |-> top[i].id, description |-> top[i].description,
                 type |-> top[i].void_type, certainty |-> top[i].certainty]],
        navigation_plan |-> plan,
        gap_clusters |->
            [i \in DOMAIN cl |->
                [id |-> cl[i].id, size |-> Len(cl[i].gaps), type |-> cl[i].cluster_type]],
        patterns |-> pat,
        recommendations |-> _generate_recommendations(vm, pat)]

\* ------------------------------------------------------------- state
VARIABLES
    discovery_methods,    \* VoidMappingEngine.discovery_methods
    maps,                 \* VoidMappingEngine.maps: void-map id -> VoidMap
    mapping_history,      \* VoidMappingEngine.mapping_history
    navigation_history,   \* VoidNavigationEngine.navigation_history
    void_knowledge_base,  \* VoidAgent.void_knowledge_base
    void_patterns,        \* VoidAgent.void_patterns
    entry,                \* the public method the caller invoked
    pc,                   \* where that call is
    raised,               \* an exception reached the caller
    point_a,              \* map_void arguments
    point_b,
    context,
    method_i,             \* map_void: position in discovery_methods
    all_gaps,             \* map_void: all_gaps
    void_map,             \* the void-map being built / analysed
    strategy,             \* navigate_void: the strategy name asked for
    hop,                  \* _gap_hopping: start_gaps, path, filled_gaps
    navigation_plan,      \* what navigate_void returns
    method,               \* cluster_gaps: the method name asked for
    clusters,             \* what cluster_gaps returns
    patterns,             \* what _analyze_void_patterns returns
    report,               \* <<>> or <<the report map_voids returns>>
    cli,                  \* the command-line run: files given, position, output, exit
    suspended             \* the frame of a second map_void coroutine waiting on the event loop

vars ==
    <<discovery_methods, maps, mapping_history, navigation_history, void_knowledge_base,
      void_patterns, entry, pc, raised, point_a, point_b, context, method_i, all_gaps,
      void_map, strategy, hop, navigation_plan, method, clusters, patterns, report, cli,
      suspended>>

engine_vars == <<discovery_methods, maps, mapping_history>>
agent_vars == <<void_knowledge_base, void_patterns>>
args_vars == <<point_a, point_b, context>>
nav_vars == <<strategy, hop, navigation_plan, navigation_history>>
cluster_vars == <<method, clusters>>

EmptyMapping == [key \in {} |-> PyInt(0)]
NoHop == [start_gaps |-> <<>>, path |-> <<>>, filled_gaps |-> {}]

\* The command-line run when the library is called directly: there is none.
NoCli ==
    [pc |-> "none", current |-> "mapping", goal |-> "mapping", output |-> "none",
     stdout |-> <<>>, invoked |-> FALSE, exited |-> FALSE, exit_status |-> 0]

\* The event loop runs one coroutine: no other is waiting.
NoFrame ==
    [pc |-> "none", point_a |-> EmptyMapping, point_b |-> EmptyMapping, context |-> NoContext,
     method_i |-> 0, all_gaps |-> <<>>, void_map |-> VoidMap(<<>>, EmptyMapping, EmptyMapping)]

\* The state every call starts from: fresh engines, nothing computed.
FreshState ==
    /\ maps = [id \in {} |-> 0]
    /\ mapping_history = <<>>
    /\ navigation_history = <<>>
    /\ void_knowledge_base = [id \in {} |-> 0]
    /\ void_patterns = <<>>
    /\ raised = FALSE
    /\ method_i = 0
    /\ all_gaps = <<>>
    /\ hop = NoHop
    /\ navigation_plan = NoPlan
    /\ clusters = <<>>
    /\ patterns = _analyze_void_patterns(VoidMap(<<>>, EmptyMapping, EmptyMapping))
    /\ report = <<>>

\* A call made on the library directly, outside a command-line run.
Fresh == FreshState /\ cli = NoCli /\ suspended = NoFrame

\* VoidAgent.map_voids(point_a, point_b, context) on a new agent.
InitMapVoids ==
    /\ Fresh
    /\ discovery_methods = SourceMethods
    /\ entry = "map_voids"
    /\ pc = "map_void"
    /\ strategy = "gap_hopping"
    /\ method = "semantic"
    /\ point_a \in StateMappings
    /\ point_b \in StateMappings
    /\ context \in Contexts
    /\ void_map = VoidMap(<<>>, EmptyMapping, EmptyMapping)

\* ------------------------------------------------------------- plug-in strategies
\* What a plug-in assigned to an extension entry of the registry does: it
\* raises, or it returns one gap.
PluginChoices ==
    {[raises |-> TRUE, description |-> <<>>, criticality |-> "UNKNOWN"]} \cup
    [raises : {FALSE},
     description : {<<"x">>, <<"X", " ">>, <<"y">>},
     criticality : {"BLOCKING", "HIGH", "LOW"}]

Plugin(name, choice) ==
    [name |-> name, source |-> FALSE, raises |-> choice.raises,
     emits |-> <<Gap(<<"found_by_", name>>, choice.description, "INFORMATION_GAP",
                     <<"general">>, <<>>, <<>>, choice.criticality, "HYPOTHESIZED")>>]

\* The registry with the extension entries at the positions of P replaced by
\* the plug-ins f assigns to them.
PluggedRegistry(P, f) ==
    [i \in DOMAIN DiscoveryMethodNames |->
        IF i \in P THEN Plugin(DiscoveryMethodNames[i], f[i])
        ELSE SourceMethod(DiscoveryMethodNames[i])]

PluggedInputs ==
    {<<EmptyMapping, EmptyMapping>>,
     <<[key \in {"k"} |-> PyInt(0)],
       [key \in {"k", "m"} |-> IF key = "k" THEN PyStr(0) ELSE PyInt(0)]>>}

\* VoidMappingEngine.map_void on an engine whose registry holds plug-ins.
InitPlugged ==
    /\ Fresh
    /\ \E P \in SUBSET (2..Len(DiscoveryMethodNames)) :
        /\ Cardinality(P) \in 1..MaxPlugged
        /\ \E f \in [P -> PluginChoices] : discovery_methods = PluggedRegistry(P, f)
    /\ entry = "map_void"
    /\ pc = "map_void"
    /\ strategy = "gap_hopping"
    /\ method = "semantic"
    /\ \E input \in PluggedInputs : point_a = input[1] /\ point_b = input[2]
    /\ context = NoContext
    /\ void_map = VoidMap(<<>>, EmptyMapping, EmptyMapping)

\* Largest number of gaps one plug-in returns from a single call.
MaxEmitted == 4

EmittedId(name, i) == <<"found_by_", name, "_", ToString(i)>>

\* The i-th gap of a plug-in that returns several gaps with distinct
\* descriptions: it lists the domain twice, 2i manifestations of which the
\* first two are the same, and the gaps returned before it as dependencies.
EmittedGap(name, i, criticality) ==
    [Gap(EmittedId(name, i), <<"d", ToString(i)>>, "CONSTRAINT_GAP",
         <<"general", "general">>, <<>>,
         [x \in 1..(2 * i) |-> <<"manifests ", ToString(IF x = 1 THEN 2 ELSE x)>>],
         criticality, "DEFINITE")
     EXCEPT !.dependencies = [x \in 1..(i - 1) |-> EmittedId(name, x)]]

\* The registry with dependency_walk replaced by a plug-in returning gaps of
\* the given criticalities.
EmittingRegistry(criticalities) ==
    [i \in DOMAIN DiscoveryMethodNames |->
        IF i = 2
        THEN [name |-> DiscoveryMethodNames[i], source |-> FALSE, raises |-> FALSE,
              emits |-> [x \in DOMAIN criticalities |->
                            EmittedGap(DiscoveryMethodNames[i], x, criticalities[x])]]
        ELSE SourceMethod(DiscoveryMethodNames[i])]

\* VoidAgent.map_voids on an agent whose mapping engine holds such a plug-in.
InitEmitting ==
    /\ Fresh
    /\ \E n \in 1..MaxEmitted :
        \E criticalities \in [1..n -> {"BLOCKING", "LOW"}] :
            discovery_methods = EmittingRegistry(criticalities)
    /\ entry = "map_voids"
    /\ pc = "map_void"
    /\ strategy = "gap_hopping"
    /\ method = "semantic"
    /\ point_a = [key \in {"k"} |-> PyInt(0)]
    /\ point_b = [key \in {"k", "m"} |-> IF key = "k" THEN PyStr(0) ELSE PyInt(0)]
    /\ context = NoContext
    /\ void_map = VoidMap(<<>>, EmptyMapping, EmptyMapping)

\* ------------------------------------------------------------- map_void
\* Lines 41-54.
MapVoidBegin ==
    /\ pc = "map_void"
    /\ void_map' = VoidMap(MapId(point_a, point_b), point_a, point_b)
    /\ all_gaps' = <<>>
    /\ method_i' = 1
    /\ pc' = "discover"
    /\ UNCHANGED <<engine_vars, agent_vars, args_vars, cli, suspended, nav_vars, cluster_vars,
                   entry, raised, patterns, report>>

\* NextMethod when the exception leaves the for loop.
NextMethodAbort(i, n, outcome_raised) == IF outcome_raised THEN n + 1 ELSE i + 1

\* The for loop goes on to the next method whether the call returned or its
\* exception was caught.
NextMethod(i, n, outcome_raised) == i + 1

HistoryRecord(map_id, name, gaps) ==
    [map_id |-> map_id, method |-> name, gaps_found |-> Len(gaps)]

\* One pass of the for loop, lines 56-71.
ApplyDiscoveryMethod ==
    /\ pc = "discover"
    /\ method_i <= Len(discovery_methods)
    /\ \E outcome \in CallMethod(discovery_methods[method_i], point_a, point_b, context) :
        /\ all_gaps' = IF outcome.raised THEN all_gaps ELSE all_gaps \o outcome.gaps
        /\ mapping_history' =
              IF outcome.raised THEN mapping_history
              ELSE Append(mapping_history,
                          HistoryRecord(void_map.id, discovery_methods[method_i].name, outcome.gaps))
        /\ method_i' = NextMethod(method_i, Len(discovery_methods), outcome.raised)
    /\ UNCHANGED <<discovery_methods, maps, agent_vars, args_vars, cli, suspended, nav_vars, cluster_vars,
                   entry, pc, raised, void_map, patterns, report>>

\* Store that keeps the entry an id already has.
StoreIfAbsent(cache, vm) ==
    [id \in (DOMAIN cache) \cup {vm.id} |-> IF id \in DOMAIN cache THEN cache[id] ELSE vm]

\* self.maps[map_id] = void_map
Store(cache, vm) ==
    [id \in (DOMAIN cache) \cup {vm.id} |-> IF id = vm.id THEN vm ELSE cache[id]]

\* Lines 73-96.
MapVoidFinish ==
    /\ pc = "discover"
    /\ method_i > Len(discovery_methods)
    /\ void_map' = AssembleVoidMap(void_map, all_gaps)
    /\ maps' = Store(maps, void_map')
    /\ pc' = IF entry = "map_voids" THEN "navigate" ELSE "done"
    /\ UNCHANGED <<discovery_methods, mapping_history, agent_vars, args_vars, cli, suspended, nav_vars,
                   cluster_vars, entry, raised, method_i, all_gaps, patterns, report>>

\* ------------------------------------------------------------- navigate_void
\* Strategy names a caller of the navigation engine asks for: the default and
\* one that is not registered.
RequestedStrategies == {"gap_hopping", "warp"}

NavigationRecord(vm, name, plan) ==
    [void_map_id |-> vm.id, strategy |-> name, plan |-> plan.summary]

AfterNavigate == IF entry = "map_voids" THEN "cluster" ELSE "done"

\* navigate_void up to the first loop test of _gap_hopping (lines 34-42 and
\* 59-82); with no gaps, _gap_hopping returns at once and navigate_void
\* records and returns (lines 44-52).
NavigateVoid ==
    /\ pc = "navigate"
    /\ LET resolved == ResolveStrategy(strategy)
       IN  /\ UNCHANGED strategy
           /\ IF resolved \notin NavigationStrategyNames
              THEN /\ raised' = TRUE
                   /\ pc' = "done"
                   /\ UNCHANGED <<hop, navigation_plan, navigation_history>>
              ELSE IF void_map.gaps = <<>>
              THEN /\ navigation_plan' = EmptyHoppingPlan
                   /\ navigation_history' =
                         Append(navigation_history,
                                NavigationRecord(void_map, resolved, EmptyHoppingPlan))
                   /\ pc' = AfterNavigate
                   /\ UNCHANGED <<hop, raised>>
              ELSE /\ hop' = [start_gaps |-> InitialStartGaps(void_map.gaps),
                              path |-> <<>>, filled_gaps |-> {}]
                   /\ pc' = "hop"
                   /\ UNCHANGED <<navigation_plan, navigation_history, raised>>
    /\ UNCHANGED <<engine_vars, agent_vars, args_vars, cli, suspended, cluster_vars, entry, method_i,
                   all_gaps, void_map, patterns, report>>

\* One iteration of `while start_gaps`, lines 84-109.
HopStep ==
    /\ pc = "hop"
    /\ hop.start_gaps # <<>>
    /\ hop' = HopIteration(void_map.gaps, hop)
    /\ UNCHANGED <<engine_vars, agent_vars, args_vars, cli, suspended, cluster_vars, entry, pc, raised,
                   method_i, all_gaps, void_map, strategy, navigation_plan,
                   navigation_history, patterns, report>>

\* The loop ends: lines 111-117, then navigate_void lines 44-52.
HopFinish ==
    /\ pc = "hop"
    /\ hop.start_gaps = <<>>
    /\ navigation_plan' = HoppingPlan(hop.path)
    /\ navigation_history' =
          Append(navigation_history,
                 NavigationRecord(void_map, ResolveStrategy(strategy), navigation_plan'))
    /\ pc' = AfterNavigate
    /\ UNCHANGED <<engine_vars, agent_vars, args_vars, cli, suspended, cluster_vars, entry, raised,
                   method_i, all_gaps, void_map, strategy, hop, patterns, report>>

\* ------------------------------------------------------------- cluster_gaps
\* Method names a caller of the clusterer asks for: two registered ones and
\* one that is not registered.
RequestedMethods == {"semantic", "strategic", "kmeans"}

\* cluster_gaps, lines 33-49.
ClusterGaps ==
    /\ pc = "cluster"
    /\ LET resolved == ResolveMethod(method)
       IN  /\ UNCHANGED method
           /\ IF void_map.gaps = <<>>
              THEN clusters' = <<>> /\ UNCHANGED raised
              ELSE IF resolved \notin ClusteringMethodNames
              THEN raised' = TRUE /\ UNCHANGED clusters
              ELSE clusters' = ClusterWith(resolved, void_map.gaps) /\ UNCHANGED raised
    /\ pc' = IF entry = "map_voids" /\ ~raised' THEN "patterns" ELSE "done"
    /\ UNCHANGED <<engine_vars, agent_vars, args_vars, cli, suspended, nav_vars, entry, method_i,
                   all_gaps, void_map, patterns, report>>

\* ------------------------------------------------------------- map_voids, steps 4 and 5
\* _analyze_void_patterns, with its append to void_patterns.
AnalyzePatterns ==
    /\ pc = "patterns"
    /\ patterns' = _analyze_void_patterns(void_map)
    /\ void_patterns' =
          IF void_map.gaps = <<>> THEN void_patterns
          ELSE Append(void_patterns, [void_map_id |-> void_map.id, patterns |-> patterns'])
    /\ pc' = "report"
    /\ UNCHANGED <<engine_vars, void_knowledge_base, args_vars, cli, suspended, nav_vars, cluster_vars,
                   entry, raised, method_i, all_gaps, void_map, report>>

\* _generate_void_report, then map_voids lines 66-71.
GenerateReport ==
    /\ pc = "report"
    /\ report' = <<_generate_void_report(void_map, navigation_plan, clusters, patterns)>>
    /\ void_knowledge_base' = Store(void_knowledge_base, void_map)
    /\ pc' = "done"
    /\ UNCHANGED <<engine_vars, void_patterns, args_vars, cli, suspended, nav_vars, cluster_vars,
                   entry, raised, method_i, all_gaps, void_map, patterns>>

\* ------------------------------------------------------------- engines called directly
\* Void-maps a caller builds by hand and gives to the navigation engine or to
\* the clusterer: up to MaxGaps gaps with ids gap_1 .. gap_n, each fillable or
\* not and BLOCKING or LOW, and up to MaxDeps dependency entries, which
\* may name the gap itself, form cycles, or name gap_0, an id no map holds.
GapProfiles ==
    {[fillable |-> TRUE, criticality |-> "BLOCKING"],
     [fillable |-> TRUE, criticality |-> "LOW"],
     [fillable |-> FALSE, criticality |-> "BLOCKING"]}

GapId(i) == <<"gap_", i>>

RECURSIVE SubsetsUpTo(_, _)
SubsetsUpTo(S, k) ==
    IF k = 0 THEN {{}}
    ELSE LET smaller == SubsetsUpTo(S, k - 1)
         IN smaller \cup {T \cup {x} : T \in smaller, x \in S}

\* The elements of a set of integers in ascending order.
RECURSIVE Ascending(_)
Ascending(S) ==
    IF S = {} THEN <<>>
    ELSE LET least == CHOOSE x \in S : \A y \in S : x <= y
         IN <<least>> \o Ascending(S \ {least})

HandBuiltGap(i, profile, deps) ==
    [Gap(GapId(i), <<"x">>, "INFORMATION_GAP", <<"general">>, <<>>, <<>>,
         profile.criticality, "DEFINITE")
     EXCEPT !.fillable = profile.fillable,
            !.fill_cost = i,
            !.dependencies = [j \in DOMAIN deps |-> GapId(deps[j])]]

\* The dependency entries <<gap, dependency>> a void-map of n gaps may have:
\* any gap on any gap, and gap_1 on gap_0.
DependencyEntries(n) == ((1..n) \X (1..n)) \cup {e \in {<<1, 0>>} : n >= 1}

\* The gap list with n gaps of the given profiles whose dependency entries
\* are the pairs <<gap, dependency>> of deps.
HandBuiltGaps(n, profiles, deps) ==
    [i \in 1..n |-> HandBuiltGap(i, profiles[i],
                                 Ascending({e[2] : e \in {x \in deps : x[1] = i}}))]

HandBuiltVoidMap(gaps) ==
    [VoidMap(<<"hand_built">>, EmptyMapping, EmptyMapping) EXCEPT !.gaps = gaps]

\* navigate_void(void_map, strategy) or cluster_gaps(void_map, method) on a
\* new engine.
InitEngines ==
    /\ Fresh
    /\ discovery_methods = SourceMethods
    /\ entry \in {"navigate_void", "cluster_gaps"}
    /\ pc = IF entry = "navigate_void" THEN "navigate" ELSE "cluster"
    /\ strategy \in IF entry = "navigate_void" THEN RequestedStrategies ELSE {"gap_hopping"}
    /\ method \in IF entry = "cluster_gaps" THEN RequestedMethods ELSE {"semantic"}
    /\ point_a = EmptyMapping
    /\ point_b = EmptyMapping
    /\ context = NoContext
    /\ \E n \in 0..MaxGaps :
        \E profiles \in [1..n -> GapProfiles], deps \in SubsetsUpTo(DependencyEntries(n), MaxDeps) :
            void_map = HandBuiltVoidMap(HandBuiltGaps(n, profiles, deps))

NextEngines ==
    \/ NavigateVoid
    \/ HopStep
    \/ HopFinish
    \/ ClusterGaps

SpecEngines == InitEngines /\ [][NextEngines]_vars

\* navigate_void under its default strategy alone; the interpreter keeps
\* running the call it has started.
InitNavigate == InitEngines /\ entry = "navigate_void" /\ strategy = "gap_hopping"

NextNavigate ==
    \/ NavigateVoid
    \/ HopStep
    \/ HopFinish

SpecNavigateFair == InitNavigate /\ [][NextNavigate]_vars /\ WF_vars(NextNavigate)

\* ------------------------------------------------------------- the clusterer called directly
\* Largest number of gaps of a hand-built void-map given to the clusterer.
MaxClusterGaps == 6

\* The (void-type, criticality) pairs of the gaps of such a void-map: six
\* pairs, one more than the cap on the number of clusters.
ClusterGapKinds ==
    {"DEPENDENCY_GAP", "INFORMATION_GAP", "CONSTRAINT_GAP"} \X {"BLOCKING", "LOW"}

KindedGap(i, kind) ==
    Gap(GapId(i), <<"x">>, kind[1], <<"general">>, <<>>, <<>>, kind[2], "DEFINITE")

\* cluster_gaps(void_map, "strategic") on a new clusterer.
InitClusters ==
    /\ Fresh
    /\ discovery_methods = SourceMethods
    /\ entry = "cluster_gaps"
    /\ pc = "cluster"
    /\ strategy = "gap_hopping"
    /\ method = "strategic"
    /\ point_a = EmptyMapping
    /\ point_b = EmptyMapping
    /\ context = NoContext
    /\ \E n \in 0..MaxClusterGaps :
        \E kinds \in [1..n -> ClusterGapKinds] :
            void_map = HandBuiltVoidMap([i \in 1..n |-> KindedGap(i, kinds[i])])

NextClusters == ClusterGaps

SpecClusters == InitClusters /\ [][NextClusters]_vars

\* ------------------------------------------------------------- command line (__main__.py)
\* What the path given as --current or --goal leads to.
FileStates == {"missing", "unreadable", "invalid_json", "non_mapping", "mapping"}

\* What --output leads to: not given, a writable path, a path whose write
\* raises PermissionError, a path whose write raises another exception.
OutputStates == {"none", "writable", "permission_denied", "write_fails"}

\* The mappings the well-formed state files hold.
FileMappings ==
    {[key \in {"k"} |-> PyInt(0)],
     [key \in {"k", "m"} |-> IF key = "k" THEN PyStr(0) ELSE PyInt(0)]}

\* json.loads(Path(path).read_text()) for a file that is read and parsed.
ParsedContents(state) == IF state = "non_mapping" THEN {NonMapping} ELSE FileMappings

\* The message printed by the except clauses of one load, lines 46-55 and
\* 59-68.
LoadErrorMessage(which, state) ==
    CASE state = "missing" -> <<"Error: Could not find ", which, " state file">>
      [] state = "invalid_json" -> <<"Error: Invalid JSON in ", which, " state file">>
      [] state = "unreadable" -> <<"Error reading ", which, " state file">>

\* async_main returned or raised: asyncio.run and main return or raise with
\* it, and the interpreter exits with status 0 or 1.
Exited(run, uncaught) ==
    [run EXCEPT !.pc = "exited", !.exited = TRUE, !.exit_status = IF uncaught THEN 1 ELSE 0]

\* python -m negative_space --current C --goal G [--output O]
InitCli ==
    /\ FreshState
    /\ suspended = NoFrame
    /\ discovery_methods = SourceMethods
    /\ entry = "map_voids"
    /\ pc = "not_called"
    /\ strategy = "gap_hopping"
    /\ method = "semantic"
    /\ point_a = EmptyMapping
    /\ point_b = EmptyMapping
    /\ context = NoContext
    /\ void_map = VoidMap(<<>>, EmptyMapping, EmptyMapping)
    /\ \E current \in FileStates, goal \in FileStates, output \in OutputStates :
        cli = [NoCli EXCEPT !.pc = "load_current", !.current = current,
                            !.goal = goal, !.output = output]

pipeline_vars ==
    <<engine_vars, agent_vars, nav_vars, cluster_vars, entry, pc, raised, context,
      method_i, all_gaps, void_map, patterns, report, suspended>>

\* Lines 44-55: load the current state.
CliLoadCurrent ==
    /\ cli.pc = "load_current"
    /\ IF cli.current \in {"missing", "invalid_json", "unreadable"}
       THEN /\ cli' = Exited([cli EXCEPT !.stdout =
                                Append(@, LoadErrorMessage("current", cli.current))], FALSE)
            /\ UNCHANGED point_a
       ELSE /\ point_a' \in ParsedContents(cli.current)
            /\ cli' = [cli EXCEPT !.pc = "load_goal"]
    /\ UNCHANGED <<pipeline_vars, point_b>>

\* Lines 57-68: load the goal state.
CliLoadGoal ==
    /\ cli.pc = "load_goal"
    /\ IF cli.goal \in {"missing", "invalid_json", "unreadable"}
       THEN /\ cli' = Exited([cli EXCEPT !.stdout =
                                Append(@, LoadErrorMessage("goal", cli.goal))], FALSE)
            /\ UNCHANGED point_b
       ELSE /\ point_b' \in ParsedContents(cli.goal)
            /\ cli' = [cli EXCEPT !.pc = "map_voids"]
    /\ UNCHANGED <<pipeline_vars, point_a>>

\* Lines 71-74: create the agent and call map_voids.
CliCallMapVoids ==
    /\ cli.pc = "map_voids"
    /\ cli' = [cli EXCEPT !.pc = "await", !.invoked = TRUE,
                          !.stdout = Append(@, <<"Mapping voids">>)]
    /\ pc' = "map_void"
    /\ UNCHANGED <<engine_vars, agent_vars, nav_vars, cluster_vars, args_vars, suspended, entry, raised,
                   method_i, all_gaps, void_map, patterns, report>>

\* What Path(args.output).write_text(...) leads to, lines 87-94.
SaveMessages(output) ==
    CASE output = "none" -> <<>>
      [] output = "writable" -> <<(<<"Report saved">>)>>
      [] output = "permission_denied" -> <<(<<"Error: Permission denied writing">>)>>
      [] output = "write_fails" -> <<(<<"Error writing report">>)>>

\* Lines 76-94: map_voids returned; display the results and save the report.
\* An exception map_voids raised leaves async_main uncaught.
CliDisplayAndSave ==
    /\ cli.pc = "await"
    /\ pc = "done"
    /\ IF raised
       THEN cli' = Exited(cli, TRUE)
       ELSE cli' = Exited([cli EXCEPT !.stdout =
                            @ \o <<(<<"Void Mapping Complete">>)>>
                              \o (IF report[1].critical_findings # <<>>
                                  THEN <<(<<"Critical Findings">>)>> ELSE <<>>)
                              \o SaveMessages(cli.output)], FALSE)
    /\ UNCHANGED <<pipeline_vars, point_a, point_b>>

NextCli ==
    \/ CliLoadCurrent
    \/ CliLoadGoal
    \/ CliCallMapVoids
    \/ MapVoidBegin
    \/ ApplyDiscoveryMethod
    \/ MapVoidFinish
    \/ NavigateVoid
    \/ HopStep
    \/ HopFinish
    \/ ClusterGaps
    \/ AnalyzePatterns
    \/ GenerateReport
    \/ CliDisplayAndSave

SpecCli == InitCli /\ [][NextCli]_vars

\* ------------------------------------------------------------- calculate_void_density called directly
\* Largest number of gaps of a hand-built void-map whose density is computed:
\* eleven gaps of weight 1.0 are the fewest whose total weight exceeds 10.
MaxDensityGaps == 11

\* The (criticality, certainty) pairs of the gaps of such a void-map: weight
\* 1.0 and weight 0.06.
DensityGapKinds == {<<"BLOCKING", "DEFINITE">>, <<"LOW", "SPECULATIVE">>}

WeightedGap(i, kind) ==
    Gap(GapId(i), <<"x">>, "INFORMATION_GAP", <<"general">>, <<>>, <<>>, kind[1], kind[2])

\* The pairs of stored states: no possible gap, one (a value difference),
\* two (missing keys).
DensityPoints ==
    {<<EmptyMapping, EmptyMapping>>,
     <<[key \in {"k"} |-> PyInt(0)], [key \in {"k"} |-> PyInt(1)]>>,
     <<EmptyMapping, [key \in {"k", "m"} |-> PyInt(0)]>>}

\* VoidMap(..., gaps=[...]).calculate_void_density() on a hand-built void-map.
InitDensity ==
    /\ Fresh
    /\ discovery_methods = SourceMethods
    /\ entry = "calculate_void_density"
    /\ pc = "density"
    /\ strategy = "gap_hopping"
    /\ method = "semantic"
    /\ context = NoContext
    /\ \E points \in DensityPoints :
        /\ point_a = points[1]
        /\ point_b = points[2]
        /\ \E n \in 0..MaxDensityGaps :
            \E kinds \in [1..n -> DensityGapKinds] :
                void_map = [VoidMap(<<"hand_built">>, points[1], points[2])
                            EXCEPT !.gaps = [i \in 1..n |-> WeightedGap(i, kinds[i])]]

\* void_map.void_density = void_map.calculate_void_density()
CalculateVoidDensity ==
    /\ pc = "density"
    /\ void_map' = [void_map EXCEPT !.void_density = calculate_void_density(void_map)]
    /\ pc' = "done"
    /\ UNCHANGED <<engine_vars, agent_vars, args_vars, cli, suspended, nav_vars, cluster_vars, entry,
                   raised, method_i, all_gaps, patterns, report>>

NextDensity == CalculateVoidDensity

SpecDensity == InitDensity /\ [][NextDensity]_vars

\* ------------------------------------------------------------- map_void called again and again
\* A caller starts a further map_void on the engine only while
\* mapping_history holds fewer than MaxRecorded records.
MaxRecorded == 10

\* The states the calls are given; the context is None or malformed, so that
\* calls with equal points, hence equal ids, return different void-maps.
CallPoints ==
    {[key \in {"k"} |-> PyInt(0)],
     [key \in {"k", "m"} |-> IF key = "k" THEN PyStr(0) ELSE PyInt(0)]}

CallContexts == {NoContext, MalformedContext}

\* VoidMappingEngine.map_void on a new engine.
InitCalls ==
    /\ Fresh
    /\ discovery_methods = SourceMethods
    /\ entry = "map_void"
    /\ pc = "map_void"
    /\ strategy = "gap_hopping"
    /\ method = "semantic"
    /\ point_a \in CallPoints
    /\ point_b \in CallPoints
    /\ context \in CallContexts
    /\ void_map = VoidMap(<<>>, EmptyMapping, EmptyMapping)

\* The caller, holding the void-map the last call returned, calls map_void
\* on the same engine with new arguments.
MapVoidAgain ==
    /\ entry = "map_void"
    /\ pc = "done"
    /\ Len(mapping_history) < MaxRecorded
    /\ point_a' \in CallPoints
    /\ point_b' \in CallPoints
    /\ context' \in CallContexts
    /\ pc' = "map_void"
    /\ UNCHANGED <<engine_vars, agent_vars, cli, suspended, nav_vars, cluster_vars, entry, raised,
                   method_i, all_gaps, void_map, patterns, report>>

NextCalls ==
    \/ MapVoidBegin
    \/ ApplyDiscoveryMethod
    \/ MapVoidFinish
    \/ MapVoidAgain

SpecCalls == InitCalls /\ [][NextCalls]_vars

\* ------------------------------------------------------------- two map_void calls on one event loop
\* The frame of a map_void coroutine: its arguments and locals.
Frame(at, a, b, c, i, gaps, vm) ==
    [pc |-> at, point_a |-> a, point_b |-> b, context |-> c,
     method_i |-> i, all_gaps |-> gaps, void_map |-> vm]

\* Two map_void calls with different pairs of points are scheduled on one
\* engine (asyncio.gather): one is about to run, the other waits.
InitConcurrent ==
    /\ FreshState
    /\ cli = NoCli
    /\ discovery_methods = SourceMethods
    /\ entry = "map_void"
    /\ pc = "map_void"
    /\ strategy = "gap_hopping"
    /\ method = "semantic"
    /\ point_a \in CallPoints
    /\ point_b \in CallPoints
    /\ context \in CallContexts
    /\ void_map = VoidMap(<<>>, EmptyMapping, EmptyMapping)
    /\ \E a, b \in CallPoints, c \in CallContexts :
        /\ <<a, b>> # <<point_a, point_b>>
        /\ suspended = Frame("map_void", a, b, c, 0, <<>>,
                             VoidMap(<<>>, EmptyMapping, EmptyMapping))

\* The event loop resumes the other coroutine: the running one has not
\* started, is suspended in the `await method_func(...)` of line 59, or has
\* returned.
Switch ==
    /\ entry = "map_void"
    /\ pc \in {"map_void", "discover", "done"}
    /\ suspended.pc \in {"map_void", "discover"}
    /\ suspended' = Frame(pc, point_a, point_b, context, method_i, all_gaps, void_map)
    /\ pc' = suspended.pc
    /\ point_a' = suspended.point_a
    /\ point_b' = suspended.point_b
    /\ context' = suspended.context
    /\ method_i' = suspended.method_i
    /\ all_gaps' = suspended.all_gaps
    /\ void_map' = suspended.void_map
    /\ UNCHANGED <<engine_vars, agent_vars, cli, nav_vars, cluster_vars, entry, raised,
                   patterns, report>>

NextConcurrent ==
    \/ MapVoidBegin
    \/ ApplyDiscoveryMethod
    \/ MapVoidFinish
    \/ Switch

SpecConcurrent == InitConcurrent /\ [][NextConcurrent]_vars

\* ------------------------------------------------------------- semantic clustering called directly
\* Largest number of gaps of a hand-built void-map given to semantic
\* clustering: one more than the cap on the number of clusters.
MaxSemanticGaps == 6

\* The (void-type, domains, description) triples of the gaps of such a
\* void-map; descriptions are compared in lower case.  A gap without domains
\* and with an empty description is below the threshold with every gap, its
\* own kind included (0.4).  The last kind is above it with the two before it
\* (0.7 with the same type and word, 0.72 with the same domain and word),
\* which are below it with each other (0.42).
SemanticGapKinds ==
    {<<"INFORMATION_GAP", <<>>, <<>>>>,
     <<"INFORMATION_GAP", <<"b">>, <<"X">>>>,
     <<"DEPENDENCY_GAP", <<"a">>, <<"x">>>>,
     <<"INFORMATION_GAP", <<"a">>, <<"x">>>>}

SemanticGap(i, kind) ==
    Gap(GapId(i), kind[3], kind[1], kind[2], <<>>, <<>>, "MEDIUM", "DEFINITE")

\* cluster_gaps(void_map, "semantic") on a new clusterer.
InitSemantic ==
    /\ Fresh
    /\ discovery_methods = SourceMethods
    /\ entry = "cluster_gaps"
    /\ pc = "cluster"
    /\ strategy = "gap_hopping"
    /\ method = "semantic"
    /\ point_a = EmptyMapping
    /\ point_b = EmptyMapping
    /\ context = NoContext
    /\ \E n \in 0..MaxSemanticGaps :
        \E kinds \in [1..n -> SemanticGapKinds] :
            void_map = HandBuiltVoidMap([i \in 1..n |-> SemanticGap(i, kinds[i])])

NextSemantic == ClusterGaps

SpecSemantic == InitSemantic /\ [][NextSemantic]_vars

\* ------------------------------------------------------------- build_gap_network called directly
\* Largest number of gaps of a hand-built void-map whose network is built.
MaxNetworkGaps == 3

\* The void-types and domain lists of the gaps of such a void-map: the four
\* types the relation names and one it does not, with domain lists that
\* overlap or not.
NetworkGapKinds ==
    {"DEPENDENCY_GAP", "CAPABILITY_GAP", "INFORMATION_GAP", "CAUSAL_GAP", "CONSTRAINT_GAP"}
    \X {<<"a">>, <<"b">>, <<"a", "b">>}

DomainedGap(i, kind) ==
    Gap(GapId(i), <<"x">>, kind[1], kind[2], <<>>, <<>>, "MEDIUM", "DEFINITE")

\* VoidMap(..., gaps=[...]).build_gap_network() on a hand-built void-map.
InitNetwork ==
    /\ Fresh
    /\ discovery_methods = SourceMethods
    /\ entry = "build_gap_network"
    /\ pc = "network"
    /\ strategy = "gap_hopping"
    /\ method = "semantic"
    /\ point_a = EmptyMapping
    /\ point_b = EmptyMapping
    /\ context = NoContext
    /\ \E n \in 0..MaxNetworkGaps :
        \E kinds \in [1..n -> NetworkGapKinds] :
            void_map = HandBuiltVoidMap([i \in 1..n |-> DomainedGap(i, kinds[i])])

\* void_map.build_gap_network()
BuildGapNetwork ==
    /\ pc = "network"
    /\ void_map' = build_gap_network(void_map)
    /\ pc' = "done"
    /\ UNCHANGED <<engine_vars, agent_vars, args_vars, cli, suspended, nav_vars, cluster_vars, entry,
                   raised, method_i, all_gaps, patterns, report>>

NextNetwork == BuildGapNetwork

SpecNetwork == InitNetwork /\ [][NextNetwork]_vars

\* ------------------------------------------------------------- specifications
Init == InitMapVoids \/ InitPlugged \/ InitEmitting

Next ==
    \/ MapVoidBegin
    \/ ApplyDiscoveryMethod
    \/ MapVoidFinish
    \/ NavigateVoid
    \/ HopStep
    \/ HopFinish
    \/ ClusterGaps
    \/ AnalyzePatterns
    \/ GenerateReport

Spec == Init /\ [][Next]_vars

\* ------------------------------------------------------------- claims on map
\* map_void has returned its void-map.
MapReturned == pc \notin {"map_void", "discover"}

ExtraKeys == (DOMAIN point_b) \ (DOMAIN point_a)

\* C2: when goal holds every key of current and at least one more (and the
\* context is well formed), the returned void-map has at least one gap and,
\* for each extra key, a DEPENDENCY_GAP reporting that key as missing.
C2_EveryExtraKeyHasGap ==
    (/\ MapReturned
     /\ discovery_methods = SourceMethods
     /\ ~InferDomainsRaises(context)
     /\ (DOMAIN point_a) \subseteq (DOMAIN point_b)
     /\ ExtraKeys # {})
    => /\ Len(void_map.gaps) >= 1
       /\ \A key \in ExtraKeys :
            \E i \in DOMAIN void_map.gaps :
                /\ void_map.gaps[i].void_type = "DEPENDENCY_GAP"
                /\ void_map.gaps[i].id = <<"missing_attr_", key>>

\* C3: for identical mappings no step of the map_voids pipeline raises, no
\* gap is found (so navigation has nothing to hop over), and the report at
\* the end has no gaps, density 0 and no critical findings.
C3_IdenticalMappingsEmptyReport ==
    (entry = "map_voids" /\ point_a = point_b)
    => /\ ~raised
       /\ pc # "hop"
       /\ MapReturned => void_map.gaps = <<>>
       /\ pc = "done" =>
            /\ Len(report) = 1
            /\ report[1].summary.total_gaps = 0
            /\ report[1].summary.void_density = RatZero
            /\ report[1].critical_findings = <<>>

C3_Witness ==
    /\ entry = "map_voids"
    /\ point_a = point_b
    /\ Cardinality(DOMAIN point_a) = MaxKeys
    /\ pc = "done"
    /\ Len(report) = 1

\* C4: with the discovery methods of the source, the void_density of the
\* returned void-map is in [0, 1] for every pair of input mappings.
C4_VoidDensityInUnitInterval ==
    (MapReturned /\ discovery_methods = SourceMethods)
    => InUnitInterval(void_map.void_density)

C4_Witness ==
    /\ MapReturned
    /\ discovery_methods = SourceMethods
    /\ Len(void_map.gaps) = MaxKeys
    /\ RatLt(RatZero, void_map.void_density)

\* The largest betweenness centrality over the nodes of the gap graph of a
\* gap list; 0 when the graph has no node.
MaxBetweenness(gaps) ==
    LET G == GapNetwork(gaps)
        N == Range(G.nodes)
    IN IF N = {} THEN RatZero ELSE RatMax([v \in N |-> BetweennessCentrality(G, v)], N)

\* Number of pairs of related gaps of a gap list.
RelatedPairs(gaps) ==
    Cardinality({p \in (DOMAIN gaps) \X (DOMAIN gaps) :
                    p[1] < p[2] /\ _are_gaps_related(gaps[p[1]], gaps[p[2]])})

\* C5: after build_gap_network, connectivity is the number of edges of the gap
\* graph over the number of possible edges, 0 with at most one node;
\* navigability is 1 minus the largest betweenness centrality; both are in
\* [0, 1].
C5_NetworkMetrics ==
    MapReturned =>
        LET gaps == void_map.gaps
            n == Len(gaps)
        IN /\ void_map.connectivity =
                 IF n <= 1 THEN RatZero ELSE Rat(2 * RelatedPairs(gaps), n * (n - 1))
           /\ void_map.navigability = RatSub(RatOne, MaxBetweenness(gaps))
           /\ InUnitInterval(void_map.connectivity)
           /\ InUnitInterval(void_map.navigability)

\* Rank of a criticality in the order BLOCKING > HIGH > MEDIUM > LOW; 0 for
\* UNKNOWN, which that order does not place.
CriticalityRank(c) ==
    CASE c = "BLOCKING" -> 4 [] c = "HIGH" -> 3 [] c = "MEDIUM" -> 2 [] c = "LOW" -> 1
      [] OTHER -> 0

\* C6: in the returned void-map no gap of lower criticality precedes a gap
\* of higher criticality (BLOCKING first).
C6_BlockingFirst ==
    MapReturned =>
        \A i, j \in DOMAIN void_map.gaps :
            (/\ i < j
             /\ CriticalityRank(void_map.gaps[i].criticality) > 0
             /\ CriticalityRank(void_map.gaps[j].criticality) > 0)
            => CriticalityRank(void_map.gaps[i].criticality) >=
               CriticalityRank(void_map.gaps[j].criticality)

\* Two descriptions are the same up to case and surrounding whitespace.
SameDescription(d1, d2) == Strip(Lower(d1)) = Strip(Lower(d2))

\* The positions of a gap list whose description no earlier position has.
FirstOccurrences(gaps) ==
    {i \in DOMAIN gaps : \A j \in 1..(i - 1) : ~SameDescription(gaps[j].description, gaps[i].description)}

\* C7: deduplication keeps exactly the first gap of every description (up to
\* case and surrounding whitespace), in emission order, and the void-map
\* holds exactly the kept gaps.
C7_DedupKeepsFirstOccurrences ==
    MapReturned =>
        LET kept == _deduplicate_gaps(all_gaps)
            first == FirstOccurrences(all_gaps)
        IN /\ Len(kept) = Cardinality(first)
           /\ \A x \in DOMAIN kept :
                \E i \in first :
                    /\ kept[x] = all_gaps[i]
                    /\ Cardinality({j \in first : j < i}) = x - 1
           /\ Len(void_map.gaps) = Cardinality(first)
           /\ GapIds(void_map.gaps) = {all_gaps[i].id : i \in first}

\* Two strategies emitted descriptions that differ as written and are the same
\* up to case and whitespace; one gap is left.
C7_Witness ==
    /\ MapReturned
    /\ \E i, j \in DOMAIN all_gaps :
        /\ i < j
        /\ all_gaps[i].description # all_gaps[j].description
        /\ SameDescription(all_gaps[i].description, all_gaps[j].description)
        /\ all_gaps[i].id \in GapIds(void_map.gaps)
        /\ all_gaps[j].id \notin GapIds(void_map.gaps)
    /\ Len(void_map.gaps) = Len(all_gaps) - 1

\* Calling the i-th registered method raises / the gaps it returns.
MethodFails(i) ==
    \A outcome \in CallMethod(discovery_methods[i], point_a, point_b, context) : outcome.raised

MethodGaps(i) ==
    UNION {Range(outcome.gaps) :
            outcome \in CallMethod(discovery_methods[i], point_a, point_b, context)}

\* C8: whichever strategies raise, map_void returns a void-map; a failing
\* strategy contributes no gap and no history record, every gap of every
\* other strategy is merged (itself or an earlier gap with the same
\* description is in the void-map), and the void-map is cached under its id.
C8_FailSoftDiscovery ==
    /\ pc \in {"map_void", "discover"} => ~raised
    /\ pc = "discover" =>
        /\ method_i \in 1..(Len(discovery_methods) + 1)
        /\ method_i <= Len(discovery_methods) => ENABLED ApplyDiscoveryMethod
    /\ MapReturned =>
        LET ok == {i \in DOMAIN discovery_methods : ~MethodFails(i)}
        IN /\ ~raised
           /\ \A i \in ok : \A g \in MethodGaps(i) :
                \E x \in DOMAIN void_map.gaps :
                    SameDescription(void_map.gaps[x].description, g.description)
           /\ \A x \in DOMAIN void_map.gaps :
                \E i \in ok : \E g \in MethodGaps(i) : g.id = void_map.gaps[x].id
           /\ Len(mapping_history) = Cardinality(ok)
           /\ void_map.id \in DOMAIN maps
           /\ maps[void_map.id] = void_map

\* One strategy raised; a strategy before it and a strategy after it each
\* have a gap in the returned void-map.
C8_Witness ==
    /\ MapReturned
    /\ \E i \in DOMAIN discovery_methods :
        /\ MethodFails(i)
        /\ \A j \in DOMAIN discovery_methods : j # i => ~MethodFails(j)
        /\ \E j \in 1..(i - 1) : MethodGaps(j) # {}
                                 /\ \A g \in MethodGaps(j) : g.id \in GapIds(void_map.gaps)
        /\ \E j \in (i + 1)..Len(discovery_methods) :
                MethodGaps(j) # {} /\ \A g \in MethodGaps(j) : g.id \in GapIds(void_map.gaps)
    /\ void_map.id \in DOMAIN maps

\* ------------------------------------------------------------- claims on navigation
\* The gap of a void-map with the given id.
GapWithId(gaps, id) == gaps[CHOOSE i \in DOMAIN gaps : gaps[i].id = id]

\* Every step of the path comes after a step for each dependency of its gap
\* that is the id of a gap of the list.
RespectsDependencies(gaps, path) ==
    \A x \in DOMAIN path :
        /\ path[x].gap_id \in GapIds(gaps)
        /\ \A dep \in Range(GapWithId(gaps, path[x].gap_id).dependencies) :
              dep \in GapIds(gaps) => \E y \in 1..(x - 1) : path[y].gap_id = dep

\* C1: the path of gap_hopping, while it is built and in the plan returned,
\* holds a gap only after every listed dependency of it that is a gap of the
\* void-map.
C1_PathRespectsDependencies ==
    /\ pc = "hop" => RespectsDependencies(void_map.gaps, hop.path)
    /\ (pc = "done" /\ entry = "navigate_void" /\ ~raised)
       => RespectsDependencies(void_map.gaps, navigation_plan.path)

\* A plan in which a BLOCKING gap follows the LOW gap it depends on, and a
\* gap depending on an id outside the map is in the path as well.
C1_Witness ==
    /\ pc = "done"
    /\ entry = "navigate_void"
    /\ \E x, y \in DOMAIN navigation_plan.path :
        LET later == GapWithId(void_map.gaps, navigation_plan.path[x].gap_id)
            earlier == GapWithId(void_map.gaps, navigation_plan.path[y].gap_id)
        IN /\ y < x
           /\ earlier.id \in Range(later.dependencies)
           /\ later.criticality = "BLOCKING"
           /\ earlier.criticality = "LOW"
    /\ \E x \in DOMAIN navigation_plan.path :
        GapId(0) \in Range(GapWithId(void_map.gaps, navigation_plan.path[x].gap_id).dependencies)

\* C9: a navigation request under an unregistered strategy name does not
\* raise, returns the plan gap_hopping returns for the void-map and is
\* recorded as gap_hopping; a clustering request under an unregistered method
\* name does not raise and returns the clusters of the semantic method.
C9_UnknownNamesUseDefault ==
    /\ (entry = "navigate_void" /\ pc = "done" /\ strategy \notin NavigationStrategyNames)
       => /\ ~raised
          /\ navigation_plan = _gap_hopping(void_map)
          /\ Len(navigation_history) = 1
          /\ navigation_history[1].strategy = "gap_hopping"
    /\ (entry = "cluster_gaps" /\ pc = "done" /\ method \notin ClusteringMethodNames)
       => /\ ~raised
          /\ clusters = IF void_map.gaps = <<>> THEN <<>>
                        ELSE ClusterWith("semantic", void_map.gaps)

C9_Witness ==
    /\ entry = "navigate_void"
    /\ pc = "done"
    /\ strategy = "warp"
    /\ Len(navigation_plan.path) = MaxGaps
    /\ navigation_plan.strategy = "gap_hopping"

\* C10: once gap_hopping has entered its loop, the loop ends and
\* navigate_void returns a plan, whatever the dependency lists are.
C10_GapHoppingTerminates ==
    (pc = "hop") ~> (pc = "done" /\ navigation_plan # NoPlan)

\* A plan was returned for a void-map in which two gaps depend on each other
\* and a third gap was filled.
C10_Witness ==
    /\ entry = "navigate_void"
    /\ pc = "done"
    /\ navigation_plan # NoPlan
    /\ Len(navigation_plan.path) >= 1
    /\ \E i, j \in DOMAIN void_map.gaps :
        /\ i # j
        /\ void_map.gaps[i].id \in Range(void_map.gaps[j].dependencies)
        /\ void_map.gaps[j].id \in Range(void_map.gaps[i].dependencies)

\* ------------------------------------------------------------- claims on gap_hopping start nodes
\* The positions of the path that hold the gap with the given id.
PathPositions(path, id) == {x \in DOMAIN path : path[x].gap_id = id}

\* The gap is in the path, once, before every step for a gap that lists it
\* as a dependency.
FilledBeforeDependents(gaps, path, gap) ==
    /\ Cardinality(PathPositions(path, gap.id)) = 1
    /\ \A x \in PathPositions(path, gap.id), y \in DOMAIN path :
          gap.id \in Range(GapWithId(gaps, path[y].gap_id).dependencies) => x < y

\* The gaps of the list the statement is about.
BlockingWithoutDependencies(gaps) ==
    {i \in DOMAIN gaps : gaps[i].criticality = "BLOCKING" /\ gaps[i].dependencies = <<>>}

\* What gap_hopping does with the gap at position i: it has in-degree 0, is
\* in the start list the loop begins with, is in the start list or filled
\* while the loop runs, and is in the plan's path before its dependents.
StartsAndPrecedesDependents(i) ==
    LET gaps == void_map.gaps
        gap == gaps[i]
    IN /\ Predecessors(gaps, gap.id) = {}
       /\ pc = "hop" =>
            /\ hop.path = <<>> /\ hop.filled_gaps = {} => gap \in Range(hop.start_gaps)
            /\ gap \in Range(hop.start_gaps) \/ gap.id \in hop.filled_gaps
       /\ (pc = "done" /\ ~raised) =>
            FilledBeforeDependents(gaps, navigation_plan.path, gap)

\* C11 (as stated): every BLOCKING gap with an empty dependency list is a
\* start node of gap_hopping and is in the resulting path before every gap
\* that lists it as a dependency.
C11_BlockingRootsLeadPath ==
    entry = "navigate_void" =>
        \A i \in BlockingWithoutDependencies(void_map.gaps) : StartsAndPrecedesDependents(i)

\* C11 (amended): every fillable BLOCKING gap with an empty dependency list
\* is a start node of gap_hopping and is in the resulting path before every
\* gap that lists it as a dependency; every BLOCKING gap with an empty
\* dependency list has in-degree 0.
C11_FillableBlockingRootsLeadPath ==
    entry = "navigate_void" =>
        \A i \in BlockingWithoutDependencies(void_map.gaps) :
            /\ Predecessors(void_map.gaps, void_map.gaps[i].id) = {}
            /\ void_map.gaps[i].fillable => StartsAndPrecedesDependents(i)

\* A plan whose path holds a fillable BLOCKING gap without dependencies ahead
\* of a gap that depends on it, for a map that also has a second start node.
C11_Witness ==
    /\ entry = "navigate_void"
    /\ pc = "done"
    /\ \E i \in BlockingWithoutDependencies(void_map.gaps) :
        /\ void_map.gaps[i].fillable
        /\ \E x, y \in DOMAIN navigation_plan.path :
            /\ x < y
            /\ navigation_plan.path[x].gap_id = void_map.gaps[i].id
            /\ void_map.gaps[i].id \in
                  Range(GapWithId(void_map.gaps, navigation_plan.path[y].gap_id).dependencies)
    /\ Len(navigation_plan.path) = MaxGaps

\* ------------------------------------------------------------- claims on strategic clustering
\* The (void-type, criticality) pair of a gap.
TypeCriticalityPair(gap) == <<gap.void_type, gap.criticality>>

\* The non-empty buckets of a gap list.
PairsOf(gaps) == {TypeCriticalityPair(gaps[i]) : i \in DOMAIN gaps}

\* cluster_gaps with method "strategic" has returned.
StrategicReturned == entry = "cluster_gaps" /\ pc = "done" /\ method = "strategic"

\* C12: strategic clustering returns min(cap, number of non-empty buckets)
\* clusters; each cluster is one whole bucket: its members are all the gaps
\* of the void-map with one (void-type, criticality) pair, in void-map order,
\* and no two clusters have the same pair.
C12_OneClusterPerBucket ==
    StrategicReturned =>
        LET gaps == void_map.gaps
        IN /\ ~raised
           /\ Len(clusters) = Min(n_clusters, Cardinality(PairsOf(gaps)))
           /\ \A c \in DOMAIN clusters :
                LET members == clusters[c].gaps
                IN /\ members # <<>>
                   /\ members =
                        SelectSeq(gaps, LAMBDA g : TypeCriticalityPair(g) =
                                                    TypeCriticalityPair(members[1]))
                   /\ clusters[c].cluster_type = members[1].void_type
           /\ \A c, d \in DOMAIN clusters :
                c # d => TypeCriticalityPair(clusters[c].gaps[1]) #
                         TypeCriticalityPair(clusters[d].gaps[1])

\* Six gaps spanning three pairs were clustered into three clusters.
C12_Witness ==
    /\ StrategicReturned
    /\ Len(void_map.gaps) = 6
    /\ Cardinality(PairsOf(void_map.gaps)) = 3
    /\ Len(clusters) = 3

\* Six gaps of six pairs were clustered into as many clusters as the cap.
C12_CapReached ==
    /\ StrategicReturned
    /\ Cardinality(PairsOf(void_map.gaps)) = 6
    /\ Len(clusters) = n_clusters

\* ------------------------------------------------------------- claims on the report
\* map_voids has returned its report.
ReportReturned == entry = "map_voids" /\ pc = "done" /\ ~raised /\ Len(report) = 1

PatternKeys ==
    {"void_density", "gap_distribution", "criticality_distribution",
     "certainty_distribution", "insights", "fillability_rate"}

\* C13: the report of every input pair has its six parts, summary.total_gaps
\* is the number of gaps of the void-map, and patterns carries void_density,
\* the three distributions, insights and fillability_rate, the last being
\* fillable gaps / gaps, and 0 when there are no gaps.
C13_ReportAndPatternsShape ==
    ReportReturned =>
        LET r == report[1]
            gaps == void_map.gaps
            fillable_count == Cardinality({i \in DOMAIN gaps : gaps[i].fillable})
        IN /\ DOMAIN r = {"summary", "critical_findings", "navigation_plan",
                          "gap_clusters", "patterns", "recommendations"}
           /\ r.summary.total_gaps = Len(gaps)
           /\ PatternKeys \subseteq r.patterns.keys
           /\ r.patterns.fillability_rate =
                IF gaps = <<>> THEN RatZero ELSE Rat(fillable_count, Len(gaps))
           /\ r.patterns.void_density = void_map.void_density

\* The part of C13 that holds for void-maps with gaps.
C13_HoldsWithGaps ==
    (ReportReturned /\ void_map.gaps # <<>>) => C13_ReportAndPatternsShape

\* The positions of the void-map's BLOCKING gaps, in void-map order.
BlockingPositions(gaps) ==
    SelectSeq([i \in DOMAIN gaps |-> i], LAMBDA i : gaps[i].criticality = "BLOCKING")

\* C14: critical_findings has min(3, number of BLOCKING gaps) entries; the
\* x-th entry describes the x-th BLOCKING gap of the void-map, so the entries
\* are distinct BLOCKING gaps in void-map order, and the list is empty
\* exactly when the void-map has no BLOCKING gap.
C14_CriticalFindings ==
    ReportReturned =>
        LET findings == report[1].critical_findings
            gaps == void_map.gaps
            blocking == BlockingPositions(gaps)
        IN /\ Len(findings) = Min(3, Len(blocking))
           /\ Len(findings) <= 3
           /\ \A x \in DOMAIN findings :
                LET gap == gaps[blocking[x]]
                IN /\ gap.criticality = "BLOCKING"
                   /\ findings[x] = [gap_id |-> gap.id, description |-> gap.description,
                                     type |-> gap.void_type, certainty |-> gap.certainty]
           /\ findings = <<>> <=> ~\E i \in DOMAIN gaps : gaps[i].criticality = "BLOCKING"

\* A report with three findings for a void-map with four BLOCKING gaps and
\* gaps of other criticalities among them.
C14_Witness ==
    /\ ReportReturned
    /\ Len(report[1].critical_findings) = 3
    /\ Len(BlockingPositions(void_map.gaps)) = 4
    /\ \E i \in DOMAIN void_map.gaps : void_map.gaps[i].criticality # "BLOCKING"

\* ------------------------------------------------------------- claims on the command line
\* The error class the run meets: the first state file that is not a readable
\* JSON mapping, else the failing write of the report, else none.
CliError(run) ==
    IF run.current # "mapping" THEN [class |-> run.current, file |-> "current"]
    ELSE IF run.goal # "mapping" THEN [class |-> run.goal, file |-> "goal"]
    ELSE IF run.output \in {"permission_denied", "write_fails"}
         THEN [class |-> run.output, file |-> "output"]
    ELSE [class |-> "none", file |-> "none"]

\* The messages that name the given error.
MessagesFor(error) ==
    CASE error.class \in {"missing", "invalid_json", "unreadable"} ->
            {LoadErrorMessage(error.file, error.class)}
      [] error.class = "non_mapping" ->
            {<<"Error: ", error.file, " state is not a mapping">>}
      [] error.class = "permission_denied" -> {<<"Error: Permission denied writing">>}
      [] error.class = "write_fails" -> {<<"Error writing report">>}
      [] OTHER -> {}

\* C15: a run that met a command-line error (a state file missing,
\* unreadable, not JSON or not a mapping, or a failing write of the report)
\* ends having printed a message of that error's class, with a non-zero exit
\* status.
C15_CliErrorsExitNonZero ==
    (cli.exited /\ CliError(cli).class # "none") =>
        /\ Range(cli.stdout) \cap MessagesFor(CliError(cli)) # {}
        /\ cli.exit_status # 0

\* What the code does: each error it detects is reported with the message of
\* its class; the exit status is 0 in every run.
C15_DetectedErrorsHaveMessages ==
    cli.exited =>
        /\ cli.exit_status = 0
        /\ CliError(cli).class \notin {"none", "non_mapping"} =>
              Range(cli.stdout) \cap MessagesFor(CliError(cli)) # {}

InputErrorStates == {"missing", "unreadable", "invalid_json", "non_mapping"}

InputErrorMessages ==
    UNION {MessagesFor([class |-> c, file |-> f]) : c \in InputErrorStates, f \in {"current", "goal"}}

\* C16: in a run where a state file is unreadable, is not valid JSON or holds
\* a top-level value that is not a mapping, map_voids is never called and the
\* run ends having reported an input error.
C16_BadInputNeverReachesMapping ==
    (cli.pc # "none" /\ (cli.current \in InputErrorStates \/ cli.goal \in InputErrorStates)) =>
        /\ ~cli.invoked
        /\ pc = "not_called"
        /\ cli.exited => Range(cli.stdout) \cap InputErrorMessages # {}

\* What the code does: a file that cannot be read or parsed ends the run
\* before map_voids is called.
C16_UnparsedInputNeverReachesMapping ==
    (cli.pc # "none" /\ {cli.current, cli.goal} \cap {"missing", "unreadable", "invalid_json"} # {}) =>
        /\ ~cli.invoked
        /\ pc = "not_called"
        /\ cli.exited => Range(cli.stdout) \cap InputErrorMessages # {}

\* ------------------------------------------------------------- claims on the negative shape
\* C17: every gap of the void-map map returns has its negative shape
\* computed, with connectivity the number of its dependency ids and
\* dimensionality min(5, distinct domains + distinct manifestations), over
\* the fields the gap has in that void-map.
C17_NegativeShapeOfReturnedGaps ==
    MapReturned =>
        \A i \in DOMAIN void_map.gaps :
            LET gap == void_map.gaps[i]
                distinct == Cardinality({gap.domains[x] : x \in DOMAIN gap.domains}) +
                            Cardinality({gap.manifestations[x] : x \in DOMAIN gap.manifestations})
            IN /\ gap.negative_shape.computed
               /\ gap.negative_shape.connectivity = Len(gap.dependencies)
               /\ gap.negative_shape.dimensionality = IF distinct > 5 THEN 5 ELSE distinct

\* A returned void-map with a gap of more than five distinct domains and
\* manifestations, repeated entries and two dependencies, next to a gap of
\* the contrastive analysis.
C17_Witness ==
    /\ MapReturned
    /\ \E i \in DOMAIN void_map.gaps :
        LET gap == void_map.gaps[i]
        IN /\ Cardinality(Range(gap.domains)) + Cardinality(Range(gap.manifestations)) > 5
           /\ Len(gap.domains) > Cardinality(Range(gap.domains))
           /\ gap.negative_shape.dimensionality = 5
           /\ gap.negative_shape.connectivity = 2
    /\ \E i \in DOMAIN void_map.gaps :
        /\ void_map.gaps[i].negative_shape.dimensionality = 2
        /\ void_map.gaps[i].negative_shape.connectivity = 0

\* ------------------------------------------------------------- claims on contrastive analysis
\* The first discovery method, contrastive analysis, has just been applied.
ContrastiveApplied ==
    /\ pc = "discover"
    /\ method_i = 2
    /\ discovery_methods[1] = SourceMethod("contrastive_analysis")
    /\ IsMapping(point_a) /\ IsMapping(point_b)

\* The gaps of a list with the given id, void-type, certainty and criticality.
GapsLike(gaps, id, criticality) ==
    {i \in DOMAIN gaps : /\ gaps[i].id = id
                         /\ gaps[i].void_type = "DEPENDENCY_GAP"
                         /\ gaps[i].certainty = "DEFINITE"
                         /\ gaps[i].criticality = criticality}

C19_OneRecordPerInvocation ==
    /\ pc = "discover" => Len(mapping_history) = method_i - 1
    /\ MapReturned =>
        /\ Len(mapping_history) = Len(discovery_methods)
        /\ Len(mapping_history) = 5
        /\ \A i \in DOMAIN mapping_history :
            /\ mapping_history[i].map_id = void_map.id
            /\ mapping_history[i].method = discovery_methods[i].name

\* What the code does: the records are those of the strategies that
\* returned, in order, each with the number of gaps its strategy returned.
C19_OneRecordPerReturn ==
    MapReturned =>
        LET returned == SelectSeq([i \in DOMAIN discovery_methods |-> i],
                                  LAMBDA i : ~MethodFails(i))
        IN /\ Len(mapping_history) = Len(returned)
           /\ \A x \in DOMAIN returned :
                /\ mapping_history[x].map_id = void_map.id
                /\ mapping_history[x].method = discovery_methods[returned[x]].name

\* ------------------------------------------------------------- claims on calculate_void_density
DensityReturned == entry = "calculate_void_density" /\ pc = "done"

\* The sum over the gaps of criticality weight x certainty weight, in
\* hundredths.
WeightSum(gaps) ==
    LET RECURSIVE Sum(_)
        Sum(i) == IF i = 0 THEN 0
                  ELSE CriticalityWeight(gaps[i].criticality) *
                       CertaintyWeight(gaps[i].certainty) + Sum(i - 1)
    IN Sum(Len(gaps))

\* C20: calculate_void_density returns the weight sum divided by the
\* possible-gap estimate, or by 10 when the estimate is 0, clamped to [0,1]
\* in both cases.
C20_DensityClampedInBothCases ==
    DensityReturned =>
        LET estimate == _estimate_possible_gaps(void_map.point_a, void_map.point_b)
            divisor == IF estimate = 0 THEN 10 ELSE estimate
        IN /\ void_map.void_density =
                RatMin(RatOne, Rat(WeightSum(void_map.gaps), 100 * divisor))
           /\ InUnitInterval(void_map.void_density)

\* What the code does: the quotient by the estimate is clamped, the quotient
\* by 10 is not.
C20_DensityAsComputed ==
    DensityReturned =>
        LET estimate == _estimate_possible_gaps(void_map.point_a, void_map.point_b)
            sum == WeightSum(void_map.gaps)
        IN void_map.void_density =
            IF estimate = 0 THEN Rat(sum, 1000)
            ELSE RatMin(RatOne, Rat(sum, 100 * estimate))

\* ------------------------------------------------------------- claims on the relationship graph
NetworkBuilt == entry = "build_gap_network" /\ pc = "done"

\* The edge rule for a gap listed before another.
EdgeRule(first, second) ==
    LET SharedDomains == {first.domains[x] : x \in DOMAIN first.domains} \cap
                         {second.domains[y] : y \in DOMAIN second.domains}
    IN \/ first.void_type = second.void_type
       \/ first.void_type = "DEPENDENCY_GAP" /\ second.void_type = "CAPABILITY_GAP"
       \/ first.void_type = "DEPENDENCY_GAP" /\ second.void_type = "INFORMATION_GAP"
       \/ first.void_type = "CAUSAL_GAP" /\ second.void_type = "INFORMATION_GAP"
       \/ SharedDomains # {}

\* C21: the graph build_gap_network builds has one node per gap; two gaps are
\* joined by an edge exactly when the edge rule holds for them, taken in list
\* order; every edge joins two different gaps of the list.
C21_NodesAndEdges ==
    NetworkBuilt =>
        LET gaps == void_map.gaps
            G == void_map.gap_network
        IN /\ Len(G.nodes) = Len(gaps)
           /\ \A i \in DOMAIN gaps : G.nodes[i] = gaps[i].id
           /\ \A i, j \in DOMAIN gaps :
                i < j => ({gaps[i].id, gaps[j].id} \in G.edges <=> EdgeRule(gaps[i], gaps[j]))
           /\ \A e \in G.edges :
                /\ Cardinality(e) = 2
                /\ e \subseteq {gaps[i].id : i \in DOMAIN gaps}

\* A graph with an edge the types give, an edge only the domains give, and
\* a pair of gaps without an edge.
C21_Witness ==
    /\ NetworkBuilt
    /\ Len(void_map.gaps) = 3
    /\ LET gaps == void_map.gaps
           G == void_map.gap_network
       IN /\ {gaps[1].id, gaps[2].id} \in G.edges
          /\ gaps[1].void_type = "DEPENDENCY_GAP" /\ gaps[2].void_type = "CAPABILITY_GAP"
          /\ Range(gaps[1].domains) \cap Range(gaps[2].domains) = {}
          /\ {gaps[1].id, gaps[3].id} \in G.edges
          /\ gaps[3].void_type = "CAUSAL_GAP"
          /\ {gaps[2].id, gaps[3].id} \notin G.edges

\* ------------------------------------------------------------- claims on strategic importance
\* The largest criticality weight among the gaps, in tenths.
RECURSIVE MaxCriticalityWeight(_)
MaxCriticalityWeight(gaps) ==
    IF gaps = <<>> THEN 0
    ELSE LET rest == MaxCriticalityWeight(Tail(gaps))
             own == CriticalityWeight(Head(gaps).criticality)
         IN IF own >= rest THEN own ELSE rest

\* C22: every returned cluster has strategic_importance = (largest
\* criticality weight of its members) x density, with density = members / 10;
\* so of two returned clusters of equal size, one holding a BLOCKING gap does
\* not score below one holding none.
C22_ImportanceFromWeights ==
    StrategicReturned =>
        /\ \A c \in DOMAIN clusters :
            /\ clusters[c].density = Rat(Len(clusters[c].gaps), 10)
            /\ clusters[c].strategic_importance =
                  RatMul(Rat(MaxCriticalityWeight(clusters[c].gaps), 10), clusters[c].density)
        /\ \A c, d \in DOMAIN clusters :
            (/\ Len(clusters[c].gaps) = Len(clusters[d].gaps)
             /\ \E i \in DOMAIN clusters[c].gaps : clusters[c].gaps[i].criticality = "BLOCKING"
             /\ \A i \in DOMAIN clusters[d].gaps : clusters[d].gaps[i].criticality # "BLOCKING")
            => RatLeq(clusters[d].strategic_importance, clusters[c].strategic_importance)

\* What the code does: the factor is the largest enum number of the members'
\* criticalities (BLOCKING = 1 ... UNKNOWN = 5).
C22_ImportanceFromEnumNumbers ==
    StrategicReturned =>
        \A c \in DOMAIN clusters :
            /\ clusters[c].density = Rat(Len(clusters[c].gaps), 10)
            /\ clusters[c].strategic_importance =
                  RatMul(Rat(MaxCriticalityValue(clusters[c].gaps), 1), clusters[c].density)

\* The strategic_importance cluster_gaps gives the bucket of a pair.
BucketImportance(gaps, pair) ==
    calculate_strategic_importance(
        _create_cluster(SelectSeq(gaps, LAMBDA g : TypeCriticalityPair(g) = pair),
                        "strategic")).strategic_importance

\* C23: the clusters returned for method strategic are in non-increasing
\* order of strategic_importance, and no bucket left out by the cap has a
\* higher strategic_importance than a cluster that was kept.
C23_StrategicOrder ==
    StrategicReturned =>
        /\ \A c, d \in DOMAIN clusters :
            c < d => RatLeq(clusters[d].strategic_importance, clusters[c].strategic_importance)
        /\ \A pair \in PairsOf(void_map.gaps) :
            (\A c \in DOMAIN clusters : TypeCriticalityPair(clusters[c].gaps[1]) # pair)
            => \A c \in DOMAIN clusters :
                  RatLeq(BucketImportance(void_map.gaps, pair), clusters[c].strategic_importance)

\* What the code does: the clusters are the first buckets in order of their
\* first gap in the void-map.
C23_StrategicOrderIsBucketOrder ==
    StrategicReturned =>
        \A c, d \in DOMAIN clusters :
            c < d =>
                LET First(x) == CHOOSE i \in DOMAIN void_map.gaps :
                                    void_map.gaps[i] = clusters[x].gaps[1]
                IN First(c) < First(d)

\* ------------------------------------------------------------- claims on semantic clustering
\* cluster_gaps with method "semantic" has returned.
SemanticReturned == entry = "cluster_gaps" /\ pc = "done" /\ method = "semantic"

\* The pairs of positions, earlier then later, of gaps with similarity above
\* 0.6, computed once.
SimilarPairs(gaps) ==
    CHOOSE pairs \in {{p \in (DOMAIN gaps) \X (DOMAIN gaps) :
                          p[1] < p[2] /\ SimilarityAboveThreshold(gaps[p[1]], gaps[p[2]])}} : TRUE

\* The positions 1..i that seed a cluster: those no earlier seed is similar
\* to.
RECURSIVE SeedsUpTo(_, _)
SeedsUpTo(similar, i) ==
    IF i = 0 THEN {}
    ELSE LET earlier == SeedsUpTo(similar, i - 1)
         IN IF \E s \in earlier : <<s, i>> \in similar
            THEN earlier ELSE earlier \cup {i}

\* The positions grouped under seed s: s, and the later positions similar to
\* s that no earlier seed took.
GroupOf(similar, seeds, s, n) ==
    {s} \cup {j \in (s + 1)..n :
                /\ <<s, j>> \in similar
                /\ \A t \in seeds : t < s => <<t, j>> \notin similar}

\* The ids of a cluster's members.
MemberIds(cluster) == {cluster.gaps[i].id : i \in DOMAIN cluster.gaps}

\* C24: semantic clustering groups greedily in one pass in void-map order:
\* before truncation there is one cluster per seed, in seed order, whose
\* members are the seed and the later ungrouped gaps with similarity to the
\* seed above 0.6, in void-map order; these clusters are pairwise disjoint
\* and every gap is in exactly one; the returned list is made of such
\* clusters, is in non-increasing size order and has at most n_clusters
\* clusters, all of them when there are no more than n_clusters.
C24_GreedySinglePass ==
    SemanticReturned =>
        LET gaps == void_map.gaps
            n == Len(gaps)
        IN \A similar \in {SimilarPairs(gaps)}, before \in {SemanticLoop(gaps, 1, {}, <<>>)} :
            \A seeds \in {SeedsUpTo(similar, n)} :
            \A order \in {Ascending(seeds)} :
               /\ Len(before) = Len(order)
               /\ \A c \in DOMAIN before :
                    \A group \in {Ascending(GroupOf(similar, seeds, order[c], n))} :
                        before[c].gaps = [x \in DOMAIN group |-> gaps[group[x]]]
               /\ \A c, d \in DOMAIN before :
                    c # d => MemberIds(before[c]) \cap MemberIds(before[d]) = {}
               /\ \A i \in DOMAIN gaps :
                    Cardinality({c \in DOMAIN before : gaps[i].id \in MemberIds(before[c])}) = 1
               /\ Len(clusters) = Min(n_clusters, Len(before))
               /\ \A c \in DOMAIN clusters :
                    \E b \in DOMAIN before : clusters[c].gaps = before[b].gaps
               /\ \A c, d \in DOMAIN clusters :
                    /\ c # d => MemberIds(clusters[c]) \cap MemberIds(clusters[d]) = {}
                    /\ c < d => Len(clusters[c].gaps) >= Len(clusters[d].gaps)

\* cluster_gaps has grouped two gaps with a seed although they are not
\* similar to each other, and has returned a smaller cluster after it.
C24_Witness ==
    /\ SemanticReturned
    /\ \E c, d \in DOMAIN clusters :
        LET members == clusters[c].gaps
        IN /\ c < d
           /\ Len(members) >= 3
           /\ ~SimilarityAboveThreshold(members[2], members[3])
           /\ Len(clusters[d].gaps) < Len(members)

\* cluster_gaps has found more than n_clusters groups and returned n_clusters.
C24_CapReached ==
    /\ SemanticReturned
    /\ Len(clusters) = n_clusters
    /\ Len(SemanticLoop(void_map.gaps, 1, {}, <<>>)) > n_clusters

\* ------------------------------------------------------------- claims on the engine's cache and history
\* s is an initial part of t.
IsPrefix(s, t) == Len(s) <= Len(t) /\ SubSeq(t, 1, Len(s)) = s

\* The step with which map_void returns.
MapVoidReturns == pc = "discover" /\ pc' = "done"

\* C25: over any sequence of map_void calls on one engine, every return
\* leaves the returned void-map in the cache under its id, replacing the
\* entry an earlier call left under that id, and changes no other entry; no
\* other step changes the cache, so no entry is removed and each id produced
\* so far holds the void-map of the most recent call that produced it; every
\* step leaves the records mapping_history already holds in place.
C25_CacheAndHistoryGrow ==
    [][/\ IsPrefix(mapping_history, mapping_history')
       /\ DOMAIN maps \subseteq DOMAIN maps'
       /\ IF MapVoidReturns
          THEN /\ void_map'.id \in DOMAIN maps'
               /\ maps'[void_map'.id] = void_map'
               /\ \A id \in DOMAIN maps : id # void_map'.id => maps'[id] = maps[id]
          ELSE maps' = maps]_vars

\* A call has returned a void-map without gaps under an id for which an
\* earlier call recorded gaps, the cache holds the later void-map under that
\* id, and it holds another id as well.
C25_Witness ==
    /\ entry = "map_void"
    /\ pc = "done"
    /\ void_map.gaps = <<>>
    /\ \E r \in DOMAIN mapping_history :
        /\ mapping_history[r].map_id = void_map.id
        /\ mapping_history[r].gaps_found > 0
    /\ void_map.id \in DOMAIN maps
    /\ maps[void_map.id] = void_map
    /\ Cardinality(DOMAIN maps) >= 2

\* ------------------------------------------------------------- claims on interleaved map requests
\* Both map_void calls have returned.
BothReturned == entry = "map_void" /\ pc = "done" /\ suspended.pc = "done"

\* The void-maps map_void(a, b, c) can return on an engine of its own.
AloneResults(a, b, c) ==
    {AssembleVoidMap(VoidMap(MapId(a, b), a, b), outcome.gaps) :
        outcome \in CallMethod(SourceMethods[1], a, b, c)}

\* The history records tagged with an id, in order.
RecordsOf(id) == SelectSeq(mapping_history, LAMBDA r : r.map_id = id)

\* The void-maps are those of the calls run alone, and the cache holds both
\* under their ids.
SameAsAlone ==
    /\ void_map \in AloneResults(point_a, point_b, context)
    /\ suspended.void_map \in AloneResults(suspended.point_a, suspended.point_b, suspended.context)
    /\ DOMAIN maps = {void_map.id, suspended.void_map.id}
    /\ void_map.id # suspended.void_map.id
    /\ maps[void_map.id] = void_map
    /\ maps[suspended.void_map.id] = suspended.void_map

\* C26: when two map requests with different points run on one engine with
\* their strategy invocations interleaved in any order, each returns a
\* void-map it can return when run alone, the cache holds both void-maps
\* under their own ids, and the history holds, for each request, one record
\* per registered strategy tagged with the request's map id.
C26_InterleavedRequests ==
    BothReturned =>
        /\ SameAsAlone
        /\ Len(mapping_history) = 2 * Len(discovery_methods)
        /\ \A id \in {void_map.id, suspended.void_map.id} :
            /\ Len(RecordsOf(id)) = Len(discovery_methods)
            /\ \A i \in DOMAIN discovery_methods : RecordsOf(id)[i].method = discovery_methods[i].name

\* What the code does: the history holds, for each request, one record per
\* strategy that returned, in registry order, tagged with the request's map
\* id.
C26_InterleavedAsAlone ==
    BothReturned =>
        /\ SameAsAlone
        /\ \A frame \in {Frame(pc, point_a, point_b, context, method_i, all_gaps, void_map),
                         suspended} :
            LET returned == SelectSeq([i \in DOMAIN discovery_methods |-> i],
                                LAMBDA i : \E outcome \in CallMethod(discovery_methods[i],
                                               frame.point_a, frame.point_b, frame.context) :
                                               ~outcome.raised)
                records == RecordsOf(frame.void_map.id)
            IN /\ Len(records) = Len(returned)
               /\ \A x \in DOMAIN returned :
                    records[x].method = discovery_methods[returned[x]].name
        /\ \A r \in DOMAIN mapping_history :
            mapping_history[r].map_id \in {void_map.id, suspended.void_map.id}

\* Both calls have returned, their records alternate in the history, and
\* one of the calls, whose contrastive analysis raised, has four records.
C26_InterleavedWithFailure ==
    /\ BothReturned
    /\ \E r \in 1..(Len(mapping_history) - 2) :
        /\ mapping_history[r].map_id # mapping_history[r + 1].map_id
        /\ mapping_history[r + 1].map_id # mapping_history[r + 2].map_id
    /\ Len(RecordsOf(void_map.id)) = 4
    /\ void_map.gaps = <<>>
    /\ suspended.void_map.gaps # <<>>

\* ------------------------------------------------------------- claims on the gap_hopping path
\* navigate_void has returned a plan.
PlanReturned == entry = "navigate_void" /\ pc = "done" /\ ~raised

\* No gap id is in the path twice, and every id in it is the id of a gap of
\* the list.
EachKnownGapOnce(gaps, path) ==
    /\ \A x, y \in DOMAIN path : path[x].gap_id = path[y].gap_id => x = y
    /\ \A x \in DOMAIN path : \E i \in DOMAIN gaps : gaps[i].id = path[x].gap_id

\* C27: the path of gap_hopping, while it is built and in the plan returned,
\* holds each gap id at most once and only ids of gaps of the void-map.
C27_PathHoldsEachGapOnce ==
    /\ pc = "hop" => EachKnownGapOnce(void_map.gaps, hop.path)
    /\ PlanReturned => EachKnownGapOnce(void_map.gaps, navigation_plan.path)

\* A plan whose path holds a gap with two dependencies after both of them.
C27_Witness ==
    /\ PlanReturned
    /\ \E x \in DOMAIN navigation_plan.path :
        LET gap == GapWithId(void_map.gaps, navigation_plan.path[x].gap_id)
        IN /\ Cardinality(Range(gap.dependencies)) = 2
           /\ \A d \in Range(gap.dependencies) :
                \E y \in 1..(x - 1) : navigation_plan.path[y].gap_id = d

\* A plan whose path holds a gap and, after it, two gaps that depend on it.
C27_SeveralDependants ==
    /\ PlanReturned
    /\ \E x, y, z \in DOMAIN navigation_plan.path :
        /\ x < y /\ y < z
        /\ \A w \in {y, z} :
            navigation_plan.path[x].gap_id \in
                Range(GapWithId(void_map.gaps, navigation_plan.path[w].gap_id).dependencies)

\* ------------------------------------------------------------- claims on fillable gaps
\* C28: every gap in the path of gap_hopping, while it is built and in the
\* plan returned, is fillable.
C28_PathHoldsFillableGapsOnly ==
    /\ pc = "hop" =>
        \A x \in DOMAIN hop.path : GapWithId(void_map.gaps, hop.path[x].gap_id).fillable
    /\ PlanReturned =>
        \A x \in DOMAIN navigation_plan.path :
            GapWithId(void_map.gaps, navigation_plan.path[x].gap_id).fillable

\* What the code does: a gap that is not fillable is in the path only if it
\* has a dependency among the gaps of the void-map; a gap that is not fillable
\* and has no such dependency is never in it.
C28_UnfillableStepsHaveDependencies ==
    PlanReturned =>
        \A x \in DOMAIN navigation_plan.path :
            LET gap == GapWithId(void_map.gaps, navigation_plan.path[x].gap_id)
            IN ~gap.fillable => Predecessors(void_map.gaps, gap.id) # {}

\* ------------------------------------------------------------- claims on the order of the gap list
\* The gap lists with the gaps of the list in another order.
Reorderings(gaps) ==
    {[x \in DOMAIN gaps |-> gaps[order[x]]] : order \in Orderings(DOMAIN gaps)}

\* C29: the set of edges of the graph build_gap_network builds, and with it
\* the connectivity, is the same for every order of the same gaps in the gap
\* list.
C29_EdgesIndependentOfOrder ==
    NetworkBuilt =>
        \A permuted \in Reorderings(void_map.gaps) :
            /\ GapNetwork(permuted).edges = void_map.gap_network.edges
            /\ Len(permuted) > 0 => Density(GapNetwork(permuted)) = void_map.connectivity

\* What the code does: the pairs that are adjacent in one order and not in
\* another are pairs of gaps of different types without a common domain, of
\* which one is a DEPENDENCY_GAP or a CAUSAL_GAP.
C29_EdgesDependOnOrderOfDirectedPairs ==
    NetworkBuilt =>
        \A permuted \in Reorderings(void_map.gaps) :
            \A i, j \in DOMAIN void_map.gaps :
                LET gap1 == void_map.gaps[i]
                    gap2 == void_map.gaps[j]
                    pair == {gap1.id, gap2.id}
                IN (pair \in GapNetwork(permuted).edges) # (pair \in void_map.gap_network.edges)
                   => /\ gap1.void_type # gap2.void_type
                      /\ Range(gap1.domains) \cap Range(gap2.domains) = {}
                      /\ {"DEPENDENCY_GAP", "CAUSAL_GAP"} \cap {gap1.void_type, gap2.void_type} # {}

\* ------------------------------------------------------------- claims on maps without gaps
\* Every goal key is a key of the current state with a value of the same
\* type.
GoalCovered ==
    /\ DOMAIN point_b \subseteq DOMAIN point_a
    /\ \A key \in (DOMAIN point_a) \cap (DOMAIN point_b) : point_a[key].type = point_b[key].type

\* map_void with the strategies of mapping.py has returned.
BuiltInMapReturned == MapReturned /\ discovery_methods = SourceMethods /\ cli = NoCli

\* Every gap is the gap of a goal key missing from the current state or of a
\* shared key whose two values have different types.
GapsOnlyForUncoveredKeys ==
    \A i \in DOMAIN void_map.gaps :
        \E key \in DOMAIN point_b :
            \/ key \notin DOMAIN point_a /\ void_map.gaps[i].id = <<"missing_attr_", key>>
            \/ /\ key \in DOMAIN point_a
               /\ point_a[key].type # point_b[key].type
               /\ void_map.gaps[i].id = <<"type_mismatch_", key>>

\* C30: map returns a void-map without gaps exactly when every goal key is
\* in the current state and every shared key has values of the same type in
\* both; a shared key with different values of one type and a key of the
\* current state alone contribute no gap.
C30_NoGapsExactlyWhenGoalCovered ==
    BuiltInMapReturned =>
        /\ void_map.gaps = <<>> <=> GoalCovered
        /\ GapsOnlyForUncoveredKeys

\* The context is given and its "domain_mappings" is not a mapping.
ContextMalformed == context.given /\ ~context.well_formed

\* C30, amended: map returns a void-map without gaps exactly when every goal
\* key is in the current state with values of the same type in both, or
\* contrastive analysis fails, as it does on a malformed context; every gap
\* returned is the gap of a missing goal key or of a shared key with values
\* of different types.
C30_NoGapsWhenCoveredOrContextMalformed ==
    BuiltInMapReturned =>
        /\ void_map.gaps = <<>> <=> (GoalCovered \/ ContextMalformed)
        /\ GapsOnlyForUncoveredKeys

\* A void-map without gaps was returned for a goal with a key the current
\* state lacks, under a malformed context.
C30_Witness ==
    /\ BuiltInMapReturned
    /\ void_map.gaps = <<>>
    /\ (DOMAIN point_b) \ (DOMAIN point_a) # {}
    /\ ContextMalformed

\* A void-map without gaps was returned for states that share a key with
\* different values of one type, the current state having a further key.
C30_SameTypeAndCurrentOnlyKeys ==
    /\ BuiltInMapReturned
    /\ void_map.gaps = <<>>
    /\ ~ContextMalformed
    /\ \E key \in (DOMAIN point_a) \cap (DOMAIN point_b) :
        point_a[key] # point_b[key] /\ point_a[key].type = point_b[key].type
    /\ (DOMAIN point_a) \ (DOMAIN point_b) # {}

====
